---- MODULE Spec2Model ----
(***************************************************************************)
(* Verification model of the telematics gateway (api-ruptela).             *)
(*                                                                         *)
(* Three state machines are modelled, each from its handler code:          *)
(*   SpecRuptela : processAndEmitGpsData on decoded Records frames         *)
(*                 (normalizer, recent-records window, fan-out, ACK)       *)
(*   SpecRupBuf  : the Ruptela socket 'data' handler (byte buffer,         *)
(*                 parseRuptelaPacketWithExtensions, ACK)                  *)
(*   SpecJimi    : one Jimi connection (processJimiIoTDataImproved,        *)
(*                 JimiGPSManager timers, socket 'close')                  *)
(*                                                                         *)
(* Numbers: coordinates are kept as the raw integers of the wire format    *)
(* (Ruptela: signed 1e-7 degree; Jimi: unsigned 1/1,800,000 degree), so    *)
(* every comparison of the code is an exact integer comparison.  An        *)
(* unsigned 32-bit value is a pair <<high 16 bits, low 16 bits>>.          *)
(***************************************************************************)
EXTENDS Integers, Sequences, FiniteSets, TLC

(***************************************************************************)
(* Bounds of the model (not program constants).                            *)
(***************************************************************************)
\* Records frames processed in one run of SpecRuptela
MaxFrames == 3
\* size of the large Records batch (one more than the window limit)
BigBatch == 101

(***************************************************************************)
(* Program constants.                                                      *)
(***************************************************************************)
\* uniqueRecords.slice(0, 100)
WindowLimit == 100
\* record.speed > 1000 is rejected
MaxSpeed == 1000

(***************************************************************************)
(* Generic helpers.                                                        *)
(***************************************************************************)
Abs(n) == IF n < 0 THEN -n ELSE n

Min(a, b) == IF a < b THEN a ELSE b

Range(s) == {s[i] : i \in DOMAIN s}

RECURSIVE Pow10(_)
Pow10(k) == IF k = 0 THEN 1 ELSE 10 * Pow10(k - 1)

\* Array.prototype.slice(0, n)
Take(s, n) == SubSeq(s, 1, Min(n, Len(s)))

\* the decimal digits of a natural number, most significant first
RECURSIVE Digits(_)
Digits(n) == IF n < 10 THEN <<n>> ELSE Append(Digits(n \div 10), n % 10)

\* the k decimal digits of n < 10^k, zero padded
RECURSIVE PadDigits(_, _)
PadDigits(n, k) == IF k = 0 THEN <<>> ELSE Append(PadDigits(n \div 10, k - 1), n % 10)

RECURSIVE StripTrailingZeros(_)
StripTrailingZeros(ds) ==
    IF ds # <<>> /\ ds[Len(ds)] = 0
    THEN StripTrailingZeros(SubSeq(ds, 1, Len(ds) - 1))
    ELSE ds

\* the sequence s with its elements evaluated once
Tabulate(s) == s \o <<>>

\* the element of a one-element set; Only({f(x) : x \in {e}}) is f(e) with e
\* evaluated once
Only(S) == CHOOSE x \in S : TRUE

\* the result of a decoder that threw
Thrown == [type |-> "thrown"]

\* the indices of s, in order
Indices(s) == Tabulate([i \in 1..Len(s) |-> i])

DigitChars == <<"0", "1", "2", "3", "4", "5", "6", "7", "8", "9">>

ToChars(ds) == [i \in DOMAIN ds |-> DigitChars[ds[i] + 1]]

IsDigitChar(c) == c \in Range(DigitChars)

(***************************************************************************)
(* JavaScript number formatting of a Ruptela coordinate raw / 10,000,000.  *)
(***************************************************************************)
\* Number.prototype.toString of |raw| / 1e7 (shortest round-trip decimal):
\* below 1e-6 the exponent form "<d>e-7", otherwise integer part, and the
\* fraction without its trailing zeros.
AbsNumStr(raw) ==
    LET v == Abs(raw)
        frac == StripTrailingZeros(PadDigits(v % 10000000, 7))
    IN  IF v = 0 THEN <<"0">>
        ELSE IF v < 10 THEN <<DigitChars[v + 1], "e", "-", "7">>
        ELSE ToChars(Digits(v \div 10000000))
             \o (IF frac = <<>> THEN <<>> ELSE <<".">> \o ToChars(frac))

\* `${value}` : the sign and the digits
NumStr(raw) == (IF raw < 0 THEN <<"-">> ELSE <<>>) \o AbsNumStr(raw)

\* value.toFixed(d) for d <= 7, as <<negative, round(|raw| / 10^(7-d))>>.
\* A tie (dropped digits exactly 5000...) is rounded up, the result toFixed
\* gives for the exact decimal value.
ToFixed(raw, d) ==
    LET unit == Pow10(7 - d)
    IN  <<raw < 0, (Abs(raw) + unit \div 2) \div unit>>

\* Math.log2(Math.abs(value)) % 1 === 0 : |raw| / 1e7 is a power of two,
\* that is |raw| = 78125 * 2^j (1e7 = 2^7 * 5^7)
RECURSIVE IsPow2Times(_, _)
IsPow2Times(v, base) ==
    IF v = base THEN TRUE
    ELSE IF v < base \/ v % 2 = 1 THEN FALSE
    ELSE IsPow2Times(v \div 2, base)

(***************************************************************************)
(* cleanAndFilterGpsData (src/index.js 448-510)                            *)
(***************************************************************************)
\* a validity test without the range check of the second line
isValidCoordinateNoRange(lat, lon) ==
    /\ ~(lat = 0 /\ lon = 0)
    /\ ToFixed(lat, 4) # ToFixed(lon, 4)

isValidCoordinate(lat, lon) ==
    LET coordStr == NumStr(lat) \o NumStr(lon)
        tripletRepeated ==
            \E i \in 1..(Len(coordStr) - 5) :
                /\ \A k \in 0..5 : IsDigitChar(coordStr[i + k])
                /\ \A k \in 0..2 : coordStr[i + k] = coordStr[i + 3 + k]
    IN  /\ ~(lat = 0 /\ lon = 0)
        /\ ~(Abs(lat) > 900000000 \/ Abs(lon) > 1800000000)
        /\ ~(lat % 900000000 = 0 /\ lon % 1800000000 = 0)
        /\ ~tripletRepeated
        /\ ToFixed(lat, 4) # ToFixed(lon, 4)

\* (Number.MAX_VALUE and Number.MIN_VALUE are no quotient raw / 1e7)
isGarbageValue(raw) ==
    LET str == SelectSeq(AbsNumStr(raw), LAMBDA c : c # ".")
    IN  \/ (raw # 0 /\ IsPow2Times(Abs(raw), 78125))
        \/ Cardinality(Range(str)) = 1

\* const recordKey = `${record.timestamp}_${latKey}_${lonKey}`
getRecordKey(record) ==
    <<record.timestamp, ToFixed(record.latitude, 6), ToFixed(record.longitude, 6)>>

\* the record passes the checks of the loop body (before the seenRecords test)
PassesFilter(record) ==
    /\ ~(\/ isGarbageValue(record.latitude)
         \/ isGarbageValue(record.longitude)
         \/ ~isValidCoordinate(record.latitude, record.longitude))
    /\ ~(record.speed < 0 \/ record.speed > MaxSpeed)
    /\ ~(record.altitude < -10000 \/ record.altitude > 200000)

cleanedRecord(record) ==
    [record EXCEPT !.speed = Min(record.speed, MaxSpeed),
                   !.angle = record.angle % 36000]

\* The records of the returned object: the loop pushes record i when it
\* passes the checks and its key is not yet in seenRecords, that is when no
\* earlier record that passed has the same key.
cleanAndFilterGpsData(records) ==
    LET ok == Tabulate([i \in 1..Len(records) |-> PassesFilter(records[i])])
        key == Tabulate([i \in 1..Len(records) |-> getRecordKey(records[i])])
        kept == SelectSeq(Indices(records),
                    LAMBDA i : ok[i] /\ \A j \in 1..(i - 1) : ~(ok[j] /\ key[j] = key[i]))
    IN  Tabulate([n \in 1..Len(kept) |-> cleanedRecord(records[kept[n]])])

(***************************************************************************)
(* Bit operations on naturals.                                             *)
(***************************************************************************)
\* bit i of v
Bit(v, i) == (v \div (2 ^ i)) % 2

\* a ^ b on 16-bit values
BitXor(a, b) ==
    LET x(i) == ((Bit(a, i) + Bit(b, i)) % 2) * (2 ^ i)
    IN  x(0) + x(1) + x(2) + x(3) + x(4) + x(5) + x(6) + x(7)
        + x(8) + x(9) + x(10) + x(11) + x(12) + x(13) + x(14) + x(15)

\* a byte buffer is a sequence of 0..255; offsets are those of the code (from 0)
ReadUInt8(buf, off) == buf[off + 1]

ReadUInt16BE(buf, off) == buf[off + 1] * 256 + buf[off + 2]

\* an unsigned 32-bit value as <<high 16 bits, low 16 bits>>
ReadUInt32BE(buf, off) == <<ReadUInt16BE(buf, off), ReadUInt16BE(buf, off + 2)>>

\* Buffer.slice(from, to)
Slice(buf, from, to) == SubSeq(buf, from + 1, Min(to, Len(buf)))

\* Buffer.writeUInt16BE(v) as two bytes
U16Bytes(v) == <<v \div 256, v % 256>>

(***************************************************************************)
(* ruptela-ack.js (src/unnamed/part_003)                                   *)
(***************************************************************************)
\* one turn of the inner loop: carry = crc & 1; crc >>= 1; if (carry) crc ^= poly
KermitBit(crc) ==
    IF crc % 2 = 1 THEN BitXor(crc \div 2, 33800) ELSE crc \div 2

\* the eight turns for one byte, after crc ^= data[i]
KermitByte(crc, byte) ==
    LET B(c) == Only({KermitBit(x) : x \in {c}})
    IN  B(B(B(B(B(B(B(B(BitXor(crc, byte)))))))))

\* the for loop over data[from .. to] (1-based) starting from crc; the range
\* is folded by halves, left half first
RECURSIVE KermitLoop(_, _, _, _)
KermitLoop(crc, data, from, to) ==
    IF from > to THEN crc
    ELSE IF from = to THEN KermitByte(crc, data[from])
    ELSE Only({KermitLoop(c, data, (from + to) \div 2 + 1, to) :
                  c \in {KermitLoop(crc, data, from, (from + to) \div 2)}})

\* CRC-CCITT (Kermit): crc = 0, reflected polynomial 0x8408 = 33800
calculateCRC16(data) == KermitLoop(0, data, 1, Len(data))

createRecordsACK(isPositive) ==
    LET body == <<100, IF isPositive THEN 1 ELSE 0>>
    IN  <<0, 2>> \o body \o U16Bytes(calculateCRC16(body))

createIdentificationACK(isAuthorized, delayMinutes) ==
    LET body == IF isAuthorized THEN <<115, 1>> ELSE <<115, 2, delayMinutes>>
    IN  U16Bytes(Len(body)) \o body \o U16Bytes(calculateCRC16(body))

createHeartbeatACK ==
    LET body == <<116, 1>>
    IN  <<0, 2>> \o body \o U16Bytes(calculateCRC16(body))

\* a switch that answers a heartbeat with the ACK of the records
sendACKResponseHeartbeatAsRecords(commandId, isPositive) ==
    CASE commandId = 1  -> <<createRecordsACK(isPositive)>>
      [] commandId = 68 -> <<createRecordsACK(isPositive)>>
      [] commandId = 15 -> <<createIdentificationACK(TRUE, 180)>>
      [] commandId = 16 -> <<createRecordsACK(isPositive)>>
      [] OTHER          -> <<>>

\* the frames sendACKResponse writes to the socket: one ACK, or nothing for a
\* command id without a defined response
sendACKResponse(commandId, isPositive) ==
    CASE commandId = 1  -> <<createRecordsACK(isPositive)>>
      [] commandId = 68 -> <<createRecordsACK(isPositive)>>
      [] commandId = 15 -> <<createIdentificationACK(TRUE, 180)>>
      [] commandId = 16 -> <<createHeartbeatACK>>
      [] OTHER          -> <<>>

handlePacketResponse(decodedData, processingSuccess) ==
    sendACKResponse(decodedData.commandId, processingSuccess)

(***************************************************************************)
(* processAndEmitGpsData (src/index.js 513-660)                            *)
(***************************************************************************)
\* order of unsigned 32-bit values <<high, low>>
U32Less(a, b) == a[1] < b[1] \/ (a[1] = b[1] /\ a[2] < b[2])

\* records.sort((a, b) => new Date(a.timestamp) - new Date(b.timestamp)).
\* The stable ascending sort: record i goes to the place after the records
\* with an earlier timestamp and the earlier records with the same timestamp.
SortByTimestamp(records) ==
    LET n == Len(records)
        place == Tabulate([i \in 1..n |->
                    1 + Cardinality({j \in 1..n :
                          \/ U32Less(records[j].timestamp, records[i].timestamp)
                          \/ (records[j].timestamp = records[i].timestamp /\ j < i)})])
        at == Tabulate([p \in 1..n |-> CHOOSE i \in 1..n : place[i] = p])
    IN  Tabulate([p \in 1..n |-> records[at[p]]])

\* uniqueRecords: the first record of every key, in order
UniqueByKey(records) ==
    LET key == Tabulate([i \in 1..Len(records) |-> getRecordKey(records[i])])
        kept == SelectSeq(Indices(records),
                    LAMBDA i : \A j \in 1..(i - 1) : key[j] # key[i])
    IN  Tabulate([n \in 1..Len(kept) |-> records[kept[n]]])

KeysOf(records) == {getRecordKey(records[i]) : i \in DOMAIN records}

\* the gps-data message built from one record
dataToEmit(imei, record) ==
    [imei |-> imei, lat |-> record.latitude, lng |-> record.longitude,
     timestamp |-> record.timestamp, speed |-> record.speed,
     altitude |-> record.altitude, angle |-> record.angle]

\* an emitToAuthenticated that sends to every client of the map
SendCallsToAll(msgs, clientList) ==
    [k \in 1..(Len(msgs) * Len(clientList)) |->
        [ws |-> clientList[((k - 1) % Len(clientList)) + 1].ws,
         msg |-> msgs[((k - 1) \div Len(clientList)) + 1]]]

\* the send calls of emitToAuthenticated for the messages msgs, in order:
\* every message goes to every client that is OPEN and authenticated
SendCalls(msgs, clientList) ==
    LET eligible == SelectSeq(clientList,
                        LAMBDA c : c.readyState = 1 /\ c.authenticated)
        e == Len(eligible)
    IN  Tabulate([k \in 1..(Len(msgs) * e) |->
            [ws |-> eligible[((k - 1) % e) + 1].ws,
             msg |-> msgs[((k - 1) \div e) + 1]]])

\* index of the first send call that throws (0: none); failing is the set of
\* clients whose send throws
FirstThrow(calls, failing) ==
    LET bad == {i \in 1..Len(calls) : calls[i].ws \in failing}
    IN  IF bad = {} THEN 0 ELSE CHOOSE i \in bad : \A j \in bad : i <= j

\* The whole handler for one decoded packet. Result:
\*   acks   : the frames written to the device socket, in order
\*   sent   : the send calls that completed
\*   cache  : the new gpsDataCache entry of the IMEI (records, recordsMap)
\*   threw  : a client.send threw and the catch block ran
ProcessAndEmit(decodedData, cachedData, clientList, failing) ==
    LET unchangedCache == cachedData
        cleaned == cleanAndFilterGpsData(decodedData.records)
        processingSuccess == Len(cleaned) > 0
        sorted == SortByTimestamp(cleaned)
        newRecordsToEmit ==
            SelectSeq(sorted, LAMBDA r : getRecordKey(r) \notin cachedData.recordsMap)
        hasNewData == newRecordsToEmit # <<>>
        allRecords == newRecordsToEmit \o cachedData.records
        uniqueRecords == UniqueByKey(allRecords)
        limitedRecords == Take(uniqueRecords, WindowLimit)
        dataToStore == [records |-> limitedRecords, recordsMap |-> KeysOf(limitedRecords)]
        allZeroSpeed == \A i \in DOMAIN newRecordsToEmit : newRecordsToEmit[i].speed = 0
        msgs == IF allZeroSpeed
                THEN <<dataToEmit(decodedData.imei,
                                  newRecordsToEmit[Len(newRecordsToEmit)])>>
                ELSE Tabulate([i \in DOMAIN newRecordsToEmit |->
                         dataToEmit(decodedData.imei, newRecordsToEmit[i])])
        calls == SendCalls(msgs, clientList)
        thrown == FirstThrow(calls, failing)
    IN  IF decodedData.type \in {"identification", "heartbeat", "dynamic_identification"}
        THEN [acks |-> handlePacketResponse(decodedData, TRUE), sent |-> <<>>,
              cache |-> unchangedCache, threw |-> FALSE]
        ELSE IF decodedData.imei = "" \/ decodedData.records = <<>>
        THEN [acks |-> IF decodedData.commandId # 0
                       THEN handlePacketResponse(decodedData, FALSE) ELSE <<>>,
              sent |-> <<>>, cache |-> unchangedCache, threw |-> FALSE]
        ELSE IF ~processingSuccess
        THEN [acks |-> IF decodedData.commandId # 0
                       THEN handlePacketResponse(decodedData, FALSE) ELSE <<>>,
              sent |-> <<>>, cache |-> unchangedCache, threw |-> FALSE]
        ELSE IF ~hasNewData
        THEN [acks |-> IF decodedData.commandId # 0
                       THEN handlePacketResponse(decodedData, TRUE) ELSE <<>>,
              sent |-> <<>>, cache |-> unchangedCache, threw |-> FALSE]
        ELSE IF thrown # 0
        THEN \* client.send threw: the catch block writes a negative ACK, the
             \* cache is not updated
             [acks |-> IF decodedData.commandId # 0
                       THEN handlePacketResponse(decodedData, TRUE)
                            \o handlePacketResponse(decodedData, FALSE)
                       ELSE <<>>,
              sent |-> SubSeq(calls, 1, thrown - 1), cache |-> unchangedCache, threw |-> TRUE]
        ELSE [acks |-> IF decodedData.commandId # 0
                       THEN handlePacketResponse(decodedData, TRUE) ELSE <<>>,
              sent |-> calls, cache |-> dataToStore, threw |-> FALSE]


(***************************************************************************)
(* ruptela.js: parseRuptelaPacketWithExtensions (src/unnamed/part_002)     *)
(***************************************************************************)
\* Buffer.toString('hex') and Buffer.from(hex, 'hex'): two hex digits (0..15)
\* per byte; from() drops an odd digit at the end
ToHex(buf) == [i \in 1..(2 * Len(buf)) |->
                  IF i % 2 = 1 THEN buf[(i + 1) \div 2] \div 16
                  ELSE buf[i \div 2] % 16]

FromHex(hex) == [i \in 1..(Len(hex) \div 2) |-> hex[2 * i - 1] * 16 + hex[2 * i]]

ReadInt32BE(buf, off) ==
    (IF buf[off + 1] >= 128 THEN buf[off + 1] - 256 ELSE buf[off + 1]) * 16777216
    + buf[off + 2] * 65536 + buf[off + 3] * 256 + buf[off + 4]

\* one long division by 10 of a number given by its bytes
RECURSIVE Div10(_)
Div10(bytes) ==
    IF bytes = <<>> THEN [q |-> <<>>, r |-> 0]
    ELSE Only({[q |-> Append(p.q, (p.r * 256 + bytes[Len(bytes)]) \div 10),
                r |-> (p.r * 256 + bytes[Len(bytes)]) % 10] :
                  p \in {Div10(SubSeq(bytes, 1, Len(bytes) - 1))}})

RECURSIVE DecimalDigits(_)
DecimalDigits(bytes) ==
    IF \A i \in DOMAIN bytes : bytes[i] = 0 THEN ""
    ELSE Only({DecimalDigits(d.q) \o DigitChars[d.r + 1] : d \in {Div10(bytes)}})

\* readBigUInt64BE().toString()
U64ToString(bytes) ==
    IF \A i \in DOMAIN bytes : bytes[i] = 0 THEN "0" ELSE DecimalDigits(bytes)

\* the loop over the count elements of one IO section; st is
\* [offset, elements, stop], stop when a bounds check made the callback return
RECURSIVE IoLoop(_, _, _, _, _)
IoLoop(payload, st, size, idWidth, left) ==
    IF left = 0 \/ st.stop THEN st
    ELSE IF st.offset + 2 > Len(payload) THEN [st EXCEPT !.stop = TRUE]
    ELSE
    LET ioId == IF idWidth = 2 THEN ReadUInt16BE(payload, st.offset)
                ELSE ReadUInt8(payload, st.offset)
        at == st.offset + idWidth
        value == CASE size = 1 -> ReadUInt8(payload, at)
                   [] size = 2 -> ReadUInt16BE(payload, at)
                   [] size = 4 -> ReadUInt32BE(payload, at)
                   [] OTHER -> Slice(payload, at, at + 8)
    IN  IF at + size > Len(payload)
        THEN [st EXCEPT !.offset = at, !.stop = TRUE]
        ELSE IoLoop(payload,
                    [offset |-> at + size,
                     elements |-> [x \in DOMAIN st.elements \cup {ioId} |->
                                      IF x = ioId THEN value ELSE st.elements[x]],
                     stop |-> FALSE],
                    size, idWidth, left - 1)

\* the forEach over the sizes 1, 2, 4, 8: a return inside the callback ends
\* that size only.  acc is [offset, ioElements].
RECURSIVE IoSections(_, _, _, _)
IoSections(payload, acc, sizes, idWidth) ==
    IF sizes = <<>> THEN acc
    ELSE IF acc.offset >= Len(payload)
    THEN IoSections(payload, acc, Tail(sizes), idWidth)
    ELSE Only({IoSections(payload,
                   [offset |-> st.offset,
                    ioElements |-> [z \in DOMAIN acc.ioElements \cup {Head(sizes)} |->
                                       IF z = Head(sizes) THEN st.elements
                                       ELSE acc.ioElements[z]]],
                   Tail(sizes), idWidth) :
               st \in {IoLoop(payload,
                              [offset |-> acc.offset + 1, elements |-> <<>>,
                               stop |-> FALSE],
                              Head(sizes), idWidth,
                              ReadUInt8(payload, acc.offset))}})

\* the header of the record at offset o (23 bytes, 25 for command 68);
\* altitude, angle and hdop are kept as the integers read (x10, x100, x10)
RecordHeader(payload, o, commandId, recordIndex) ==
    LET x == IF commandId = 68 THEN 1 ELSE 0
    IN  [recordIndex |-> recordIndex,
         timestamp |-> ReadUInt32BE(payload, o),
         timestampExtension |-> ReadUInt8(payload, o + 4),
         priority |-> ReadUInt8(payload, o + 5 + x),
         longitude |-> ReadInt32BE(payload, o + 6 + x),
         latitude |-> ReadInt32BE(payload, o + 10 + x),
         altitude |-> ReadUInt16BE(payload, o + 14 + x),
         angle |-> ReadUInt16BE(payload, o + 16 + x),
         satellites |-> ReadUInt8(payload, o + 18 + x),
         speed |-> ReadUInt16BE(payload, o + 19 + x),
         hdop |-> ReadUInt8(payload, o + 21 + x),
         eventId |-> IF commandId = 68 THEN ReadUInt16BE(payload, o + 23)
                     ELSE ReadUInt8(payload, o + 22)]

\* the for loop over the records, from record recordIndex at offset
RECURSIVE ParseRecords(_, _, _, _, _)
ParseRecords(payload, offset, recordIndex, numRecords, commandId) ==
    LET headerSize == IF commandId = 68 THEN 25 ELSE 23 IN
    IF recordIndex >= numRecords \/ offset + headerSize > Len(payload) THEN <<>>
    ELSE Only({<<[header EXCEPT !.ioElements = io.ioElements]>>
                   \o ParseRecords(payload, io.offset, recordIndex + 1,
                                   numRecords, commandId) :
               header \in {RecordHeader(payload, offset, commandId, recordIndex)
                              @@ [ioElements |-> <<>>]},
               io \in {IoSections(payload,
                          [offset |-> offset + headerSize, ioElements |-> <<>>],
                          <<1, 2, 4, 8>>,
                          IF commandId = 68 THEN 2 ELSE 1)}})

\* the decoder, on a buffer of at least 11 bytes
parseRuptelaPacketWithExtensions(hexData) ==
    LET buffer == FromHex(hexData)
        packetLength == ReadUInt16BE(buffer, 0)
        imei == U64ToString(Slice(buffer, 2, 10))
        commandId == ReadUInt8(buffer, 10)
        payload == Slice(buffer, 11, Len(buffer) - 2)
        Basic(type) == [imei |-> imei, commandId |-> commandId, type |-> type,
                        records |-> <<>>]
    IN  IF packetLength # Len(buffer) - 4 THEN Thrown
        ELSE IF commandId = 15 THEN Basic("identification")
        ELSE IF commandId = 16 THEN Basic("heartbeat")
        ELSE IF commandId = 18 THEN Basic("dynamic_identification")
        ELSE IF commandId \in {1, 68}
        THEN IF Len(payload) < 2 THEN Thrown
             ELSE [imei |-> imei, commandId |-> commandId,
                   type |-> IF commandId = 1 THEN "records" ELSE "extended_records",
                   records |-> ParseRecords(payload, 2, 0, ReadUInt8(payload, 1),
                                            commandId)]
        ELSE Basic("unknown")


(***************************************************************************)
(* jimi-iot-parser.js: checksum and encoders                               *)
(***************************************************************************)
JIMI_LOGIN == 1

crctab16 == <<
        0,  4489,  8978, 12955, 17956, 22445, 25910, 29887,
    35912, 40385, 44890, 48851, 51820, 56293, 59774, 63735,
     4225,   264, 13203,  8730, 22181, 18220, 30135, 25662,
    40137, 36160, 49115, 44626, 56045, 52068, 63999, 59510,
     8450, 12427,   528,  5017, 26406, 30383, 17460, 21949,
    44362, 48323, 36440, 40913, 60270, 64231, 51324, 55797,
    12675,  8202,  4753,   792, 30631, 26158, 21685, 17724,
    48587, 44098, 40665, 36688, 64495, 60006, 55549, 51572,
    16900, 21389, 24854, 28831,  1056,  5545, 10034, 14011,
    52812, 57285, 60766, 64727, 34920, 39393, 43898, 47859,
    21125, 17164, 29079, 24606,  5281,  1320, 14259,  9786,
    57037, 53060, 64991, 60502, 39145, 35168, 48123, 43634,
    25350, 29327, 16404, 20893,  9506, 13483,  1584,  6073,
    61262, 65223, 52316, 56789, 43370, 47331, 35448, 39921,
    29575, 25102, 20629, 16668, 13731,  9258,  5809,  1848,
    65487, 60998, 56541, 52564, 47595, 43106, 39673, 35696,
    33800, 38273, 42778, 46739, 49708, 54181, 57662, 61623,
     2112,  6601, 11090, 15067, 20068, 24557, 28022, 31999,
    38025, 34048, 47003, 42514, 53933, 49956, 61887, 57398,
     6337,  2376, 15315, 10842, 24293, 20332, 32247, 27774,
    42250, 46211, 34328, 38801, 58158, 62119, 49212, 53685,
    10562, 14539,  2640,  7129, 28518, 32495, 19572, 24061,
    46475, 41986, 38553, 34576, 62383, 57894, 53437, 49460,
    14787, 10314,  6865,  2904, 32743, 28270, 23797, 19836,
    50700, 55173, 58654, 62615, 32808, 37281, 41786, 45747,
    19012, 23501, 26966, 30943,  3168,  7657, 12146, 16123,
    54925, 50948, 62879, 58390, 37033, 33056, 46011, 41522,
    23237, 19276, 31191, 26718,  7393,  3432, 16371, 11898,
    59150, 63111, 50204, 54677, 41258, 45219, 33336, 37809,
    27462, 31439, 18516, 23005, 11618, 15595,  3696,  8185,
    63375, 58886, 54429, 50452, 45483, 40994, 37561, 33584,
    31687, 27214, 22741, 18780, 15843, 11370,  7921,  3960 >>

\* fcs = (fcs >>> 8) ^ crctab16[(fcs ^ data[i]) & 0xFF]
JimiFcsStep(fcs, byte) ==
    BitXor(fcs \div 256, crctab16[BitXor(fcs % 256, byte) + 1])

\* the loop over data, from 0xFFFF
RECURSIVE JimiFcs(_)
JimiFcs(data) ==
    IF data = <<>> THEN 65535
    ELSE Only({JimiFcsStep(fcs, data[Len(data)]) :
                  fcs \in {JimiFcs(SubSeq(data, 1, Len(data) - 1))}})

\* a checksum returned without the final inversion
calculateJimiCRC16NoInversion(data) == JimiFcs(data)

\* return (~fcs) & 0xFFFF
calculateJimiCRC16(data) == 65535 - JimiFcs(data)

createLoginACK(serialNumber) ==
    LET body == <<5, 1>> \o U16Bytes(serialNumber)
    IN  <<120, 120>> \o body \o U16Bytes(calculateJimiCRC16(body)) \o <<13, 10>>

\* an encoder that writes the checksum without the final inversion
createJimiACKNoInversion(protocolNumber, serialNumber) ==
    LET body == <<5, protocolNumber>> \o U16Bytes(serialNumber)
    IN  <<120, 120>> \o body \o U16Bytes(JimiFcs(body)) \o <<13, 10>>

createJimiACK(protocolNumber, serialNumber) ==
    IF protocolNumber = JIMI_LOGIN THEN createLoginACK(serialNumber)
    ELSE LET body == <<5, protocolNumber>> \o U16Bytes(serialNumber)
         IN  <<120, 120>> \o body \o U16Bytes(calculateJimiCRC16(body)) \o <<13, 10>>

\* the time calibration response (case 0x8A); now is the server clock
\* <<YY, MM, DD, hh, mm, ss>>
createTimeResponse(now, timeSerial) ==
    LET body == <<11, 138>> \o now \o U16Bytes(timeSerial)
    IN  <<120, 120>> \o body \o U16Bytes(calculateJimiCRC16(body)) \o <<13, 10>>

\* the frame requestGPS writes: protocol 0x80 with the scheduler's serial
createRequestGPS(serial) ==
    LET body == <<5, 128>> \o U16Bytes(serial)
    IN  <<120, 120>> \o body \o U16Bytes(calculateJimiCRC16(body)) \o <<13, 10>>


(***************************************************************************)
(* jimi-iot-parser.js: decoders                                            *)
(***************************************************************************)
\* socket.imei before any login assigned it
Undefined == "undefined"

\* JavaScript truthiness of socket.imei
Truthy(imei) == imei # Undefined /\ imei # ""

ToU32(n) == <<n \div 65536, n % 65536>>

U32ToInt(v) == v[1] * 65536 + v[2]

\* a BCD decode that takes the low nibble of each byte first
RECURSIVE BcdStringLowFirst(_)
BcdStringLowFirst(bytes) ==
    IF bytes = <<>> THEN ""
    ELSE LET high == bytes[1] \div 16
             low == bytes[1] % 16
         IN  (IF low <= 9 THEN DigitChars[low + 1] ELSE "")
             \o (IF high <= 9 THEN DigitChars[high + 1] ELSE "")
             \o BcdStringLowFirst(Tail(bytes))

\* BCD decode of the IMEI bytes: nibbles above 9 are skipped
RECURSIVE BcdString(_)
BcdString(bytes) ==
    IF bytes = <<>> THEN ""
    ELSE LET high == bytes[1] \div 16
             low == bytes[1] % 16
         IN  (IF high <= 9 THEN DigitChars[high + 1] ELSE "")
             \o (IF low <= 9 THEN DigitChars[low + 1] ELSE "")
             \o BcdString(Tail(bytes))

\* readUInt16BE(12) and readUInt16BE(14) throw on a buffer shorter than 16
processLoginPacket(buffer) ==
    IF Len(buffer) < 16 THEN Thrown
    ELSE [type |-> "login",
          imei |-> BcdString(Slice(buffer, 4, 12)),
          typeIdentifier |-> ReadUInt16BE(buffer, 12),
          timeZoneLanguage |-> ReadUInt16BE(buffer, 14),
          serialNumber |-> ReadUInt16BE(buffer, Len(buffer) - 6),
          protocolNumber |-> JIMI_LOGIN]

\* latitude/longitude are kept as [neg, raw]: the value is raw / 1,800,000
\* degrees, negated when neg.  180 / 1800000 is the double 0.0001, so
\* "> 0.0001" is raw >= 181; "<= 90" is raw <= 162,000,000.
processGPSLocationPacket(buffer, protocolNumber) ==
    IF Len(buffer) < 24 THEN Thrown
    ELSE
    LET gpsInfo == ReadUInt8(buffer, 10)
        latitudeRaw == ReadUInt32BE(buffer, 11)
        longitudeRaw == ReadUInt32BE(buffer, 15)
        negated == U32Less(ToU32(0), longitudeRaw)
                   /\ U32Less(longitudeRaw, ToU32(324000000))
        courseStatus == ReadUInt16BE(buffer, 20)
        mcc == ReadUInt16BE(buffer, 22)
        mncLength == IF mcc >= 32768 THEN 2 ELSE 1
        lacLength == IF protocolNumber = 160 THEN 4 ELSE 2
        cellIdLength == IF protocolNumber = 160 THEN 8 ELSE 3
        lacAt == 24 + mncLength
        cellAt == lacAt + lacLength
        validCoords == /\ ~U32Less(ToU32(162000000), latitudeRaw)
                       /\ ~U32Less(ToU32(324000000), longitudeRaw)
                       /\ ~U32Less(latitudeRaw, ToU32(181))
                       /\ ~U32Less(longitudeRaw, ToU32(181))
    IN  IF Len(buffer) < cellAt + cellIdLength THEN Thrown
        ELSE [type |-> "gps",
              timestamp |-> Slice(buffer, 4, 10),
              latitude |-> [neg |-> FALSE, raw |-> latitudeRaw],
              longitude |-> [neg |-> negated, raw |-> longitudeRaw],
              speed |-> ReadUInt8(buffer, 19),
              course |-> courseStatus % 1024,
              satellites |-> gpsInfo % 16,
              gpsRealTime |-> (courseStatus \div 32) % 2,
              positioned |-> (courseStatus \div 16) % 2,
              valid |-> validCoords,
              serialNumber |-> ReadUInt16BE(buffer, Len(buffer) - 6),
              protocolNumber |-> protocolNumber,
              cellInfo |-> [mcc |-> mcc % 32768,
                            mnc |-> Slice(buffer, 24, lacAt),
                            lac |-> Slice(buffer, lacAt, cellAt),
                            cellId |-> Slice(buffer, cellAt, cellAt + cellIdLength)]]

\* the data object of a jimi-data message; the timestamp is the local Date
\* built from the six components, moved back six hours
jimiDataToEmit(parsedData, socketImei) ==
    [type |-> "jimi-data",
     timestamp |-> [local |-> parsedData.timestamp, shiftHours |-> 0 - 6],
     latitude |-> parsedData.latitude,
     longitude |-> parsedData.longitude,
     speed |-> parsedData.speed,
     course |-> parsedData.course,
     satellites |-> parsedData.satellites,
     positioned |-> parsedData.positioned,
     imei |-> IF Truthy(socketImei) THEN socketImei ELSE "jimi_ll301",
     valid |-> parsedData.valid,
     protocolNumber |-> parsedData.protocolNumber,
     serialNumber |-> parsedData.serialNumber,
     gpsRealTime |-> parsedData.gpsRealTime,
     cellInfo |-> parsedData.cellInfo]

\* emitGPSData: one send per open authenticated subscriber; a send that
\* throws is caught and the loop goes on
emitGPSData(parsedData, clientList, socketImei, failing) ==
    LET targets == SelectSeq(clientList,
                       LAMBDA c : c.readyState = 1 /\ c.authenticated
                                  /\ c.ws \notin failing)
    IN  Tabulate([i \in 1..Len(targets) |->
                     [ws |-> targets[i].ws,
                      msg |-> jimiDataToEmit(parsedData, socketImei)]])


(***************************************************************************)
(* processJimiIoTDataImproved (src/utils/jimi-iot-parser.js 600-780)       *)
(***************************************************************************)
\* protocol numbers the default case leaves without a reply
NoReplyProtocols == {19, 18, 22}

\* a handler without the duplicate-login branch
NoDuplicateLogin(jimiLoginCompleted, protocolNumber) == FALSE

\* else-if of line 638: a LOGIN on a connection that already completed one
DuplicateLogin(jimiLoginCompleted, protocolNumber) ==
    jimiLoginCompleted /\ protocolNumber = JIMI_LOGIN

\* what one call of the handler does to the socket sk =
\* [jimiLoginCompleted, imei, hasManager]:
\*   writes      socket.write calls, in order
\*   sent        client.send calls that completed, in order
\*   timers      setTimeout(2000) closures created: [imei, serial]
\*   session     IMEI passed to jimiLogger.startSession, or Undefined
\*   gpsReceived socket.gpsManager.onGPSReceived() was called
\*   dispatched  <<[protocolNumber, serialNumber]>> once the switch is reached
Effect(sk, completed, imei, writes, sent, timers, session, gpsReceived, dispatched) ==
    [jimiLoginCompleted |-> completed, imei |-> imei, writes |-> writes,
     sent |-> sent, timers |-> timers, session |-> session,
     gpsReceived |-> gpsReceived, dispatched |-> dispatched]

Dropped(sk) ==
    Effect(sk, sk.jimiLoginCompleted, sk.imei, <<>>, <<>>, <<>>, Undefined, FALSE, <<>>)

processJimiIoTDataImproved(rawData, sk, clientList, now, failing) ==
    IF Len(rawData) < 8 THEN Dropped(sk)
    ELSE IF ReadUInt16BE(rawData, 0) \notin {30840, 31097} THEN Dropped(sk)
    ELSE IF ReadUInt16BE(rawData, Len(rawData) - 2) # 3338 THEN Dropped(sk)
    ELSE
    LET protocolNumber == ReadUInt8(rawData, 3)
        serial == ReadUInt16BE(rawData, Len(rawData) - 6)
        completed == sk.jimiLoginCompleted \/ protocolNumber = JIMI_LOGIN
        here == <<[protocolNumber |-> protocolNumber, serialNumber |-> serial]>>
        Reply(writes) ==
            Effect(sk, completed, sk.imei, writes, <<>>, <<>>, Undefined, FALSE, here)
    IN  IF DuplicateLogin(sk.jimiLoginCompleted, protocolNumber) THEN Dropped(sk)
        ELSE CASE protocolNumber = JIMI_LOGIN ->
                 LET parsedData == processLoginPacket(rawData)
                 IN  IF parsedData.type = "thrown" THEN Reply(<<>>)
                     ELSE Effect(sk, completed, parsedData.imei,
                              <<createJimiACK(JIMI_LOGIN, parsedData.serialNumber)>>,
                              <<>>,
                              <<[imei |-> parsedData.imei,
                                 serial |-> parsedData.serialNumber]>>,
                              parsedData.imei, FALSE, here)
             [] protocolNumber = 138 ->
                 Reply(<<createTimeResponse(now, serial)>>)
             [] protocolNumber \in {35, 54} ->
                 Reply(<<createJimiACK(protocolNumber, serial)>>)
             [] protocolNumber \in {34, 160} ->
                 LET parsedData == processGPSLocationPacket(rawData, protocolNumber)
                 IN  IF parsedData.type = "thrown" THEN Reply(<<>>)
                     ELSE Effect(sk, completed, sk.imei, <<>>,
                              IF parsedData.valid
                              THEN emitGPSData(parsedData, clientList, sk.imei, failing)
                              ELSE <<>>,
                              <<>>, Undefined, sk.hasManager, here)
             [] protocolNumber \in {125, 32} ->
                 Reply(<<createJimiACK(protocolNumber, serial)>>)
             [] OTHER ->
                 IF protocolNumber \in NoReplyProtocols THEN Reply(<<>>)
                 ELSE Reply(<<createJimiACK(protocolNumber, serial)>>)


(***************************************************************************)
(* JimiGPSManager (src/utils/jimi-iot-parser.js 143-265).  Time is in      *)
(* seconds; a timer is its remaining time; lastGPSReceived is the age of   *)
(* the last fix, -1 while null.                                            *)
(***************************************************************************)
SettleDelay == 2

AggressivePeriod == 15

maxAggressive == 6

NormalPeriod == 60

NormalSilence == 90

ReducedPeriod == 300

\* the age of the last fix is compared with NormalSilence by the normal
\* callback and with ReducedPeriod by the reduced one, and entering the
\* reduced phase resets it: ages above the limit of the phase behave alike
AgeCap(m) ==
    IF m.requestInterval = "reduced" THEN ReducedPeriod + 1 ELSE NormalSilence + 1

\* requestGPS: writeUInt16BE throws on a serial above 0xFFFF (caught, nothing
\* is written); the counter is incremented in every case
requestGPSWrites(m) ==
    IF m.serialCounter <= 65535 THEN <<createRequestGPS(m.serialCounter)>> ELSE <<>>

requestGPS(m) == [m EXCEPT !.serialCounter = @ + 1]

\* a constructor that starts the normal loop next to the aggressive one
NewManagerTwoLoops(imei, baseSerial) ==
    [imei |-> imei, serialCounter |-> baseSerial + 1, lastGPSReceived |-> 0 - 1,
     isDeviceResponding |-> FALSE,
     aggressiveInterval |-> "live", aggressiveCount |-> 1,
     aggressiveRem |-> AggressivePeriod,
     requestInterval |-> "normal", requestRem |-> NormalPeriod]

\* constructor, startGPSManagement and aggressivePhase up to setInterval
NewManager(imei, baseSerial) ==
    [imei |-> imei, serialCounter |-> baseSerial + 1, lastGPSReceived |-> 0 - 1,
     isDeviceResponding |-> FALSE,
     aggressiveInterval |-> "live", aggressiveCount |-> 1,
     aggressiveRem |-> AggressivePeriod,
     requestInterval |-> "null", requestRem |-> 0]

\* the first request of the constructor, made with serialCounter = baseSerial
FirstRequestWrites(baseSerial) ==
    IF baseSerial <= 65535 THEN <<createRequestGPS(baseSerial)>> ELSE <<>>

\* a loop that goes on for one more fire
AggressiveOverAfterSeven(m) == m.aggressiveCount >= maxAggressive + 1

\* if (aggressiveCount >= maxAggressive) of the aggressive callback
AggressiveOver(m) == m.aggressiveCount >= maxAggressive

onGPSReceived(m) ==
    IF m.isDeviceResponding /\ m.requestInterval # "null"
    THEN [m EXCEPT !.lastGPSReceived = 0, !.requestInterval = "reduced",
                   !.requestRem = ReducedPeriod]
    ELSE [m EXCEPT !.lastGPSReceived = 0]

cleanup(m) == [m EXCEPT !.requestInterval = "null", !.requestRem = 0]

\* !timeSinceLastGPS || timeSinceLastGPS > limit; sameMs: the fix came in the
\* very millisecond of the callback, so that timeSinceLastGPS is 0
Silent(m, limit, sameMs) ==
    \/ m.lastGPSReceived = 0 - 1
    \/ m.lastGPSReceived = 0 /\ sameMs
    \/ m.lastGPSReceived > limit


(***************************************************************************)
(* State.                                                                  *)
(***************************************************************************)
VARIABLES
    \* process-wide (src/index.js 318-321)
    gpsDataCache,   \* Map imei -> {records, recordsMap}
    clients,        \* Map ws -> {authenticated}, in insertion order
    inbox,          \* per subscriber, every gps-data message delivered so far
    \* one Ruptela connection
    rupOut,         \* frames written to the device socket by the last handler
    lastDecoded,    \* the decoded packet the last handler processed
    framesDone,     \* number of frames processed
    sortedInput,    \* every frame so far came in non-decreasing timestamp order
    lastTs,         \* latest record timestamp received so far
    sendThrew,      \* some client.send has thrown so far
    \* the WebSocket side
    presented,      \* attached subscribers that sent a valid token since they attached
    wsReply,        \* last handshake message sent to each attached subscriber
    \* one Jimi connection (port 7000) and the timers it created
    jimiSock,       \* "open"; "ended" once socket.end() was called; "destroyed"
                    \* between socket.destroy() and the 'close' event; "closed"
    jimiLoginCompleted, \* socket.jimiLoginCompleted
    socketImei,     \* socket.imei
    settleTimers,   \* pending setTimeout(2000) closures of the LOGIN case
    managers,       \* every JimiGPSManager constructed, in creation order
    gpsManager,     \* socket.gpsManager: index into managers, 0 when unset
    deviceSessions, \* keys of jimiLogger.deviceSessions
    jimiOut,        \* socket.write calls of the last handler or callback
    jimiSent,       \* client.send calls completed in the last handler
    dispatched,     \* frames the last handler took to its switch
    jimiWindow,     \* fingerprints of the fixes sent before the last handler
    lastEvent,      \* the event the last step handled
    pending,        \* second part of a frame cut in two by TCP, not yet delivered
    requestsMade,   \* number of requestGPS calls so far
    lastRequest,    \* serial of the last request-location frame written, -1: none
    \* one Ruptela connection, as bytes
    dataBuffer,     \* let dataBuffer of the connection closure
    wire,           \* bytes the device has sent that no 'data' event delivered yet
    wireSent,       \* number of frames the device has sent
    rupSock,        \* state of the Ruptela socket, as jimiSock
    \* the functions of the codec, applied to one input
    probe,          \* the input handed to a function
    answer,         \* what the function returned
    \* two Jimi connections side by side
    peers           \* per connection: the fields of its socket

rupVars == <<gpsDataCache, clients, inbox, rupOut, lastDecoded, framesDone,
             sortedInput, lastTs, sendThrew, presented, wsReply>>

jimiVars == <<jimiSock, jimiLoginCompleted, socketImei, settleTimers, managers,
              gpsManager, deviceSessions, jimiOut, jimiSent, dispatched,
              jimiWindow, lastEvent, pending, requestsMade, lastRequest>>

bufVars == <<dataBuffer, wire, wireSent, rupSock>>

pureVars == <<probe, answer>>

vars == <<rupVars, jimiVars, bufVars, pureVars, peers>>

(***************************************************************************)
(* SpecRuptela: decoded Records frames of one device.                      *)
(***************************************************************************)
DeviceImei == "356938035643809"

ClientIds == {1, 2, 3}

NoCache == [records |-> <<>>, recordsMap |-> {}]

NoPacket == [imei |-> "", commandId |-> 0, type |-> "none", records |-> <<>>]

\* the k-th position of the test track: valid coordinates, distinct keys
TrackRecord(k, speed) ==
    [timestamp |-> <<26000, k>>,
     latitude |-> 194326040 + 10 * k,
     longitude |-> -991332040 - 10 * k,
     altitude |-> 22400, angle |-> 9000, speed |-> speed]

\* n consecutive records of the track starting at position from
Batch(from, n, speed) == Tabulate([i \in 1..n |-> TrackRecord(from + i - 1, speed)])

\* a record the normalizer rejects: latitude 0, longitude 0
NullIsland == [timestamp |-> <<26000, 1>>, latitude |-> 0, longitude |-> 0,
               altitude |-> 0, angle |-> 0, speed |-> 0]

\* the Records frames the device sends: <<command id, records>>, each of at
\* most 255 records
RecordFrames ==
    { <<1, Batch(1, 2, 50)>>,            \* two moving records
      <<1, Batch(2, 1, 50)>>,            \* the second of them again
      <<68, Batch(2, 2, 50)>>,           \* extended records, one seen, one new
      <<1, Batch(1, 3, 0)>>,             \* three stationary records
      <<1, Batch(1, BigBatch, 50)>>,     \* more records than the window holds
      <<1, Batch(BigBatch, 1, 50)>>,     \* the latest record of that batch again
      <<1, <<TrackRecord(2, 50), TrackRecord(4, 0), TrackRecord(5, 0)>>>>,
                                         \* one moving record, two stationary
      <<1, <<TrackRecord(7, 50), TrackRecord(6, 50)>>>>,
                                         \* two records, the later one first
      <<1, <<NullIsland>>>>,             \* nothing survives normalization
      <<1, <<>>>> }                      \* no record

RecordsPacket(commandId, records) ==
    [imei |-> DeviceImei, commandId |-> commandId,
     type |-> IF commandId = 1 THEN "records" ELSE "extended_records",
     records |-> records]

MinTs(records) ==
    CHOOSE t \in {records[i].timestamp : i \in DOMAIN records} :
        \A i \in DOMAIN records : ~U32Less(records[i].timestamp, t)

MaxTs(records) ==
    CHOOSE t \in {records[i].timestamp : i \in DOMAIN records} :
        \A i \in DOMAIN records : ~U32Less(t, records[i].timestamp)

\* the records of the frame are in non-decreasing timestamp order and none is
\* older than what was received before
InOrder(records, latest) ==
    /\ \A i \in 1..(Len(records) - 1) :
          ~U32Less(records[i + 1].timestamp, records[i].timestamp)
    /\ records # <<>> => ~U32Less(MinTs(records), latest)

Deliver(box, sent) ==
    [c \in ClientIds |->
        box[c] \o [i \in 1..Len(SelectSeq(sent, LAMBDA x : x.ws = c)) |->
                      SelectSeq(sent, LAMBDA x : x.ws = c)[i].msg]]

\* nothing received on the Ruptela side yet
RuptelaIdle ==
    /\ gpsDataCache = [i \in {DeviceImei} |-> NoCache]
    /\ inbox = [c \in ClientIds |-> <<>>]
    /\ rupOut = <<>>
    /\ lastDecoded = NoPacket
    /\ framesDone = 0
    /\ sortedInput = TRUE
    /\ lastTs = <<0, 0>>
    /\ sendThrew = FALSE

\* two subscribers attached and authenticated, a third attached only
RuptelaStart ==
    /\ RuptelaIdle
    /\ clients = <<[ws |-> 1, authenticated |-> TRUE, readyState |-> 1],
                   [ws |-> 2, authenticated |-> TRUE, readyState |-> 1],
                   [ws |-> 3, authenticated |-> FALSE, readyState |-> 1]>>
    /\ presented = {1, 2}
    /\ wsReply = [c \in ClientIds |->
                     IF c \in {1, 2} THEN "authentication-success" ELSE "none"]

NoEvent == [kind |-> "none", frames |-> <<>>]

NoPending == [frames |-> <<>>, rest |-> <<>>]

\* a Jimi connection just accepted
JimiStart ==
    /\ jimiSock = "open"
    /\ jimiLoginCompleted = FALSE
    /\ socketImei = Undefined
    /\ settleTimers = <<>>
    /\ managers = <<>>
    /\ gpsManager = 0
    /\ deviceSessions = {}
    /\ jimiOut = <<>>
    /\ jimiSent = <<>>
    /\ dispatched = <<>>
    /\ jimiWindow = {}
    /\ lastEvent = NoEvent
    /\ pending = NoPending
    /\ requestsMade = 0
    /\ lastRequest = 0 - 1

\* a Ruptela connection just accepted, nothing sent yet
BufferStart ==
    /\ dataBuffer = <<>>
    /\ wire = <<>>
    /\ wireSent = 0
    /\ rupSock = "open"

\* no function applied yet
NoProbe == [fn |-> "none"]

\* a connection slot: nothing accepted on it yet
NoPeer ==
    [sock |-> "none", jimiLoginCompleted |-> FALSE, imei |-> Undefined,
     out |-> <<>>, timers |-> <<>>, hasManager |-> FALSE]

PeerIds == {1, 2}

PureStart ==
    /\ probe = NoProbe
    /\ answer = NoProbe
    /\ peers = [c \in PeerIds |-> NoPeer]

InitRuptela == RuptelaStart /\ JimiStart /\ BufferStart /\ PureStart

\* processAndEmitGpsData(decodedData, port, socket) on the state of the process
Processed(decodedData, failing) ==
    \E r \in {ProcessAndEmit(decodedData, gpsDataCache[decodedData.imei],
                              clients, failing)} :
        /\ gpsDataCache' = [gpsDataCache EXCEPT ![decodedData.imei] = r.cache]
        /\ inbox' = Deliver(inbox, r.sent)
        /\ rupOut' = r.acks
        /\ lastDecoded' = decodedData
        /\ framesDone' = framesDone + 1
        /\ sortedInput' = (sortedInput /\ InOrder(decodedData.records, lastTs))
        /\ lastTs' = IF /\ decodedData.records # <<>>
                        /\ U32Less(lastTs, MaxTs(decodedData.records))
                     THEN MaxTs(decodedData.records) ELSE lastTs
        /\ sendThrew' = (sendThrew \/ r.threw)
        /\ UNCHANGED <<clients, presented, wsReply>>

\* a Records packet, already decoded, reaches processAndEmitGpsData
RecordsFrame(commandId, records, failing) ==
    /\ framesDone < MaxFrames
    /\ Processed(RecordsPacket(commandId, records), failing)
    /\ UNCHANGED <<jimiVars, bufVars, pureVars, peers>>

NextRuptela ==
    \E frame \in RecordFrames, failing \in {{}, {2}} :
        RecordsFrame(frame[1], frame[2], failing)

SpecRuptela == InitRuptela /\ [][NextRuptela]_vars


(***************************************************************************)
(* Claims on SpecRuptela.                                                  *)
(***************************************************************************)
\* the key (timestamp, latitude to 6 decimals, longitude to 6 decimals) of a
\* gps-data message
MsgKey(m) == <<m.timestamp, ToFixed(m.lat, 6), ToFixed(m.lng, 6)>>

DistinctKeys(box) == Cardinality({MsgKey(box[i]) : i \in DOMAIN box}) = Len(box)

\* C1: when the Records frames of one IMEI arrive in non-decreasing
\* timestamp order (and no subscriber send has failed), no subscriber
\* receives two messages of that IMEI with the same key
\* (timestamp, lat to 6 decimals, lon to 6 decimals).
C1_EmittedKeysUnique ==
    (sortedInput /\ ~sendThrew) => \A c \in ClientIds : DistinctKeys(inbox[c])

\* the recent-records window of the device
Window == gpsDataCache[DeviceImei].records

\* the records of the frame of this step that survive normalization
Survivors == cleanAndFilterGpsData(lastDecoded'.records)

\* the messages client c received in this step
NewMsgs(c) == SubSeq(inbox'[c], Len(inbox[c]) + 1, Len(inbox'[c]))

\* a Records frame was processed in this step
RecordsStep == framesDone' # framesDone /\ lastDecoded'.commandId \in {1, 68}

\* C13: the recent-records window of an IMEI holds at most 100 records and
\* they are the most recent ones: whenever the window is rewritten, no record
\* left out of it (of the old window or of the batch) is more recent than a
\* record kept in it.
C13_WindowKeepsMostRecent ==
    [][(RecordsStep /\ gpsDataCache' # gpsDataCache)
       => LET kept == Range(Window')
              dropped == (Range(Window) \cup Range(Survivors)) \ kept
          IN  /\ Len(Window') <= WindowLimit
              /\ \A r \in dropped : \A q \in kept :
                     ~U32Less(q.timestamp, r.timestamp)]_vars

\* C14: the Records ACK of a frame (command 1 or 68) is one ACK, positive when
\* at least one record of the frame survived normalization and negative
\* otherwise, whether or not the surviving records were already in the window.
C14_AckFollowsNormalization ==
    [][RecordsStep => rupOut' = <<createRecordsACK(Survivors # <<>>)>>]_vars

\* C15: a batch with several surviving records that all have speed 0 gives
\* exactly one message, for the latest of its records not yet in the window;
\* a batch with a surviving record of non-zero speed gives one message for
\* each of its surviving records not yet in the window (seen where no
\* delivery has thrown).
C15_StationaryConsolidation ==
    [][(RecordsStep /\ ~sendThrew')
       => \E surv \in {Survivors}, seen \in {KeysOf(Window)} :
          \E fresh \in {SelectSeq(SortByTimestamp(surv),
                            LAMBDA r : getRecordKey(r) \notin seen)} :
          \E stationary \in {\A i \in DOMAIN surv : surv[i].speed = 0} :
              /\ (Len(surv) >= 2 /\ stationary /\ fresh # <<>>)
                    => NewMsgs(1) = <<dataToEmit(DeviceImei, fresh[Len(fresh)])>>
              /\ ~stationary
                    => NewMsgs(1) = [i \in DOMAIN fresh |->
                                        dataToEmit(DeviceImei, fresh[i])]]_vars

\* C16: when the delivery of a fix to one subscriber throws, the other
\* authenticated, writable subscribers still receive that fix and the later
\* fixes of the batch, and the frame is processed to the end: subscriber 1,
\* whose send never throws, receives what it receives when no send throws,
\* and the window and the ACK are those of a run without a throw.
C16_DeliveryFailureIsolated ==
    [][RecordsStep
       => \E r \in {ProcessAndEmit(lastDecoded', gpsDataCache[DeviceImei],
                                   clients, {})} :
             /\ NewMsgs(1) = Deliver([c \in ClientIds |-> <<>>], r.sent)[1]
             /\ gpsDataCache'[DeviceImei] = r.cache
             /\ rupOut' = r.acks]_vars

\* C17: a subscriber whose delivery failed is removed from the subscriber
\* set: once a send to subscriber 2 has thrown, no later fix reaches it.
C17_FailedSubscriberRemoved ==
    [][sendThrew => inbox'[2] = inbox[2]]_vars

\* the timestamps of a sequence of messages never go back
Ascending(msgs) ==
    \A i \in 1..(Len(msgs) - 1) :
        ~U32Less(msgs[i + 1].timestamp, msgs[i].timestamp)

\* C30: the fixes of an IMEI delivered to a subscriber follow ascending
\* timestamp order, within one Records batch and across successive batches:
\* no fix is delivered after a fix with a later timestamp
C30_DeliveredInTimestampOrder == \A c \in ClientIds : Ascending(inbox[c])

\* C36: for every decoded Records frame exactly one Records ACK (command
\* 100) is written to the device, also when a subscriber send throws during
\* the fan-out: a positive ACK is never followed by a negative one for the
\* same frame
C36_ExactlyOneRecordsAck ==
    [][RecordsStep
       => /\ Len(rupOut') = 1
          /\ ReadUInt8(rupOut'[1], 2) = 100
          /\ ~\E i \in DOMAIN rupOut' :
                 /\ i + 1 \in DOMAIN rupOut'
                 /\ ReadUInt8(rupOut'[i], 3) = 1
                 /\ ReadUInt8(rupOut'[i + 1], 3) = 0]_vars


(***************************************************************************)
(* SpecJimi: one Jimi connection.  The frames a device sends.              *)
(***************************************************************************)
MaxRequests == 7

\* the server clock read by the time calibration reply
ServerClocks == {<<24, 2, 3, 20, 5, 7>>}

\* a frame as the device built it: 78 78, length, protocol, payload, serial,
\* CRC-ITU over length..serial, 0D 0A
Frame(protocolNumber, serial, bytes) ==
    [protocolNumber |-> protocolNumber, serialNumber |-> serial, bytes |-> bytes]

\* login of IMEI 03 51 12 34 56 78 9A BC (BCD), type 0x3600, zone 0x3601
LoginA ==
    Frame(1, 1,
        <<120, 120, 17, 1, 3, 81, 18, 52, 86, 120, 154, 188, 54, 0, 54, 1,
          0, 1, 147, 156, 13, 10>>)

\* login of IMEI 03 56 93 80 35 64 38 09
LoginB ==
    Frame(1, 2,
        <<120, 120, 17, 1, 3, 86, 147, 128, 53, 100, 56, 9, 54, 0, 54, 1,
          0, 2, 45, 197, 13, 10>>)

\* login of IMEI 03 51 12 34 56 78 90 12 with the last serial of the 16-bit range
LoginHighSerial ==
    Frame(1, 65535,
        <<120, 120, 17, 1, 3, 81, 18, 52, 86, 120, 144, 18, 54, 0, 54, 1,
          255, 255, 55, 193, 13, 10>>)

\* LoginB with its checksum damaged in transit
LoginBadCrc ==
    Frame(1, 2,
        <<120, 120, 17, 1, 3, 86, 147, 128, 53, 100, 56, 9, 54, 0, 54, 1,
          0, 2, 45, 198, 13, 10>>)

\* a LOGIN frame without payload: processLoginPacket throws on it
LoginShort ==
    Frame(1, 4,
        <<120, 120, 5, 1, 0, 4, 142, 113, 13, 10>>)

\* heartbeat 0x23
HeartbeatStatus ==
    Frame(35, 5,
        <<120, 120, 9, 35, 0, 4, 0, 1, 0, 5, 196, 252, 13, 10>>)

\* heartbeat 0x36
Heartbeat ==
    Frame(54, 6,
        <<120, 120, 7, 54, 0, 4, 0, 6, 2, 64, 13, 10>>)

\* time calibration request 0x8A
TimeRequest ==
    Frame(138, 7,
        <<120, 120, 5, 138, 0, 7, 153, 160, 13, 10>>)

\* 4G location 2024-02-03 14:05:06, 9 satellites, latitude raw 83551232 (46.4),
\* longitude raw 102173184 (56.8), speed 60, course/status 0x1C5A: positioned
\* (bit 4 as the decoder reads it, and bits 10..12)
GpsFix ==
    Frame(160, 8,
        <<120, 120, 38, 160, 24, 2, 3, 14, 5, 6, 201, 4, 250, 228, 0, 6,
          23, 10, 0, 60, 28, 90, 1, 78, 20, 0, 0, 4, 210, 0, 0, 0, 0, 0,
          1, 226, 64, 0, 8, 178, 5, 13, 10>>)

\* the same place and time with every status flag clear (course/status 0x004A)
GpsNoFix ==
    Frame(160, 9,
        <<120, 120, 38, 160, 24, 2, 3, 14, 5, 6, 201, 4, 250, 228, 0, 6,
          23, 10, 0, 60, 0, 74, 1, 78, 20, 0, 0, 4, 210, 0, 0, 0, 0, 0, 1,
          226, 64, 0, 9, 206, 0, 13, 10>>)

\* 4G location with latitude 0 and longitude 0
GpsZero ==
    Frame(160, 10,
        <<120, 120, 38, 160, 24, 2, 3, 14, 5, 8, 201, 0, 0, 0, 0, 0, 0, 0,
          0, 60, 28, 90, 1, 78, 20, 0, 0, 4, 210, 0, 0, 0, 0, 0, 1, 226,
          64, 0, 10, 135, 152, 13, 10>>)

\* 2G location with latitude raw 199999744 (111.1 degrees)
Gps2GOutOfRange ==
    Frame(34, 11,
        <<120, 120, 31, 34, 24, 2, 3, 14, 5, 9, 201, 11, 235, 193, 0, 6,
          23, 10, 0, 60, 28, 90, 1, 78, 20, 4, 210, 1, 226, 64, 0, 11, 91,
          159, 13, 10>>)

\* a location frame without payload: processGPSLocationPacket throws on it
GpsShort ==
    Frame(160, 12,
        <<120, 120, 5, 160, 0, 12, 87, 50, 13, 10>>)

\* general information 0x7D
GeneralInfo ==
    Frame(125, 13,
        <<120, 120, 9, 125, 73, 78, 70, 79, 0, 13, 93, 50, 13, 10>>)

\* device status 0x20
DeviceStatus ==
    Frame(32, 14,
        <<120, 120, 6, 32, 1, 0, 14, 200, 30, 13, 10>>)

\* protocol 0x13: no reply expected
StatusInfo ==
    Frame(19, 15,
        <<120, 120, 8, 19, 68, 1, 4, 0, 15, 119, 78, 13, 10>>)

\* protocol 0x94: no case of its own
InfoTransfer ==
    Frame(148, 16,
        <<120, 120, 7, 148, 0, 1, 0, 16, 178, 6, 13, 10>>)

JimiFrames ==
    {LoginA, LoginB, LoginHighSerial, LoginBadCrc, LoginShort, HeartbeatStatus,
     Heartbeat,
     TimeRequest, GpsFix, GpsNoFix, GpsZero, Gps2GOutOfRange, GpsShort,
     GeneralInfo, DeviceStatus, StatusInfo, InfoTransfer}

\* frames TCP delivers in one data event, back to back
CoalescedPairs ==
    {<<LoginA, HeartbeatStatus>>, <<HeartbeatStatus, GpsFix>>,
     <<GpsFix, HeartbeatStatus>>, <<TimeRequest, Heartbeat>>}

\* frames TCP delivers in two data events, and where it cuts them
SplitFrames == {LoginA, HeartbeatStatus, GpsFix}

SplitPoints(f) == {4, Len(f.bytes) - 2}

(***************************************************************************)
(* SpecJimi: the handlers and callbacks of the connection.                 *)
(***************************************************************************)
\* a fix sent to subscribers on this session, as the recent-records window
\* would remember it: timestamp, latitude and longitude quantized to 6 decimals
Quantize6(raw) == 5 * (raw \div 9) + (10 * (raw % 9) + 9) \div 18

Fingerprint(m) ==
    <<m.timestamp.local,
      Quantize6(U32ToInt(m.latitude.raw)), m.longitude.neg,
      Quantize6(U32ToInt(m.longitude.raw))>>

Fingerprints(sent) == {Fingerprint(sent[i].msg) : i \in DOMAIN sent}

InitJimi == RuptelaStart /\ JimiStart /\ BufferStart /\ PureStart

\* a socket whose 'data' handler runs whatever became of the connection
ReadableAlways(sock) == TRUE

\* 'data' events are emitted until the socket is destroyed
Readable(sock) == sock \in {"open", "ended"}

\* socket 'data' on port 7000 (src/index.js 719-724): the bytes of the event
\* go to processJimiIoTDataImproved as they are.  After socket.end() a write
\* of the handler fails and destroys the socket.
Receive(kind, frames, data, toCome, now, failing) ==
    LET sk == [jimiLoginCompleted |-> jimiLoginCompleted, imei |-> socketImei,
               hasManager |-> gpsManager # 0]
    IN  /\ Readable(jimiSock)
        /\ \E e \in {processJimiIoTDataImproved(data, sk, clients, now, failing)} :
           /\ jimiLoginCompleted' = e.jimiLoginCompleted
           /\ socketImei' = e.imei
           /\ settleTimers' = settleTimers \o
                  [i \in 1..Len(e.timers) |->
                      [rem |-> SettleDelay, imei |-> e.timers[i].imei,
                       serial |-> e.timers[i].serial]]
           /\ managers' = IF e.gpsReceived
                          THEN [managers EXCEPT ![gpsManager] = onGPSReceived(@)]
                          ELSE managers
           /\ deviceSessions' = IF e.session = Undefined THEN deviceSessions
                                ELSE deviceSessions \cup {e.session}
           /\ jimiOut' = e.writes
           /\ jimiSent' = e.sent
           /\ dispatched' = e.dispatched
           /\ jimiWindow' = jimiWindow \cup Fingerprints(jimiSent)
           /\ lastEvent' = [kind |-> kind, frames |-> frames]
           /\ pending' = toCome
           /\ jimiSock' = IF jimiSock = "ended" /\ e.writes # <<>>
                          THEN "destroyed" ELSE jimiSock
           /\ UNCHANGED <<gpsManager, requestsMade, lastRequest, rupVars, bufVars, pureVars, peers>>

\* one data event carrying exactly one frame
JimiData(f, now, failing) ==
    /\ pending = NoPending
    /\ Receive("whole", <<f>>, f.bytes, NoPending, now, failing)

\* one data event carrying two frames back to back
JimiCoalesced(f, g, now, failing) ==
    /\ pending = NoPending
    /\ Receive("coalesced", <<f, g>>, f.bytes \o g.bytes, NoPending, now, failing)

\* the first k bytes of a frame arrive alone
JimiFirstPart(f, k, now, failing) ==
    /\ pending = NoPending
    /\ Receive("first", <<f>>, SubSeq(f.bytes, 1, k),
               [frames |-> <<f>>, rest |-> SubSeq(f.bytes, k + 1, Len(f.bytes))],
               now, failing)

\* the rest of that frame arrives in the next data event
JimiSecondPart(now, failing) ==
    /\ pending # NoPending
    /\ Receive("second", pending.frames, pending.rest, NoPending, now, failing)

\* what every timer callback and the 'close' handler leave behind
Callback(kind, writes, requests) ==
    /\ jimiOut' = writes
    /\ jimiSent' = <<>>
    /\ dispatched' = <<>>
    /\ jimiWindow' = jimiWindow \cup Fingerprints(jimiSent)
    /\ lastEvent' = [kind |-> kind, frames |-> <<>>]
    /\ requestsMade' = requestsMade + requests
    /\ lastRequest' = IF writes = <<>> THEN lastRequest
                      ELSE ReadUInt16BE(writes[Len(writes)], 4)

RemoveAt(s, i) == SubSeq(s, 1, i - 1) \o SubSeq(s, i + 1, Len(s))

\* the setTimeout(2000) closure of the LOGIN case: it runs whatever became of
\* the socket (a write on a destroyed socket does not throw)
SettleFire(i) ==
    /\ i \in DOMAIN settleTimers
    /\ settleTimers[i].rem = 0
    /\ settleTimers' = RemoveAt(settleTimers, i)
    /\ managers' = Append(managers,
                          NewManager(settleTimers[i].imei, settleTimers[i].serial))
    /\ gpsManager' = Len(managers) + 1
    /\ Callback("settle", FirstRequestWrites(settleTimers[i].serial), 1)
    /\ UNCHANGED <<jimiSock, jimiLoginCompleted, socketImei, deviceSessions,
                   pending, rupVars, bufVars, pureVars, peers>>

\* the setInterval(15000) callback of aggressivePhase
AggressiveTick(i) ==
    LET m == managers[i] IN
    /\ i \in DOMAIN managers
    /\ m.aggressiveInterval = "live"
    /\ m.aggressiveRem = 0
    /\ IF jimiSock = "closed"
       THEN /\ managers' = [managers EXCEPT ![i].aggressiveInterval = "cleared"]
            /\ Callback("aggressive", <<>>, 0)
       ELSE IF AggressiveOver(m)
       THEN /\ managers' = [managers EXCEPT ![i].aggressiveInterval = "cleared",
                                            ![i].requestInterval = "normal",
                                            ![i].requestRem = NormalPeriod]
            /\ Callback("aggressive", <<>>, 0)
       ELSE /\ managers' = [managers EXCEPT
                               ![i] = [requestGPS(m) EXCEPT
                                          !.aggressiveCount = @ + 1,
                                          !.aggressiveRem = AggressivePeriod]]
            /\ Callback("aggressive", requestGPSWrites(m), 1)
    /\ UNCHANGED <<jimiSock, jimiLoginCompleted, socketImei, settleTimers,
                   gpsManager, deviceSessions, pending, rupVars, bufVars, pureVars, peers>>

\* the setInterval(60000) callback of normalPhase
NormalTick(i, sameMs) ==
    LET m == managers[i] IN
    /\ i \in DOMAIN managers
    /\ m.requestInterval = "normal"
    /\ m.requestRem = 0
    /\ IF jimiSock = "closed"
       THEN /\ managers' = [managers EXCEPT ![i] = cleanup(m)]
            /\ Callback("normal", <<>>, 0)
       ELSE IF Silent(m, NormalSilence, sameMs)
       THEN /\ managers' = [managers EXCEPT
                               ![i] = [requestGPS(m) EXCEPT !.requestRem = NormalPeriod]]
            /\ Callback("normal", requestGPSWrites(m), 1)
       ELSE /\ managers' = [managers EXCEPT ![i].isDeviceResponding = TRUE,
                                            ![i].requestRem = NormalPeriod]
            /\ Callback("normal", <<>>, 0)
    /\ UNCHANGED <<jimiSock, jimiLoginCompleted, socketImei, settleTimers,
                   gpsManager, deviceSessions, pending, rupVars, bufVars, pureVars, peers>>

\* the setInterval(300000) callback of reducedPhase
ReducedTick(i, sameMs) ==
    LET m == managers[i] IN
    /\ i \in DOMAIN managers
    /\ m.requestInterval = "reduced"
    /\ m.requestRem = 0
    /\ IF jimiSock = "closed"
       THEN /\ managers' = [managers EXCEPT ![i] = cleanup(m)]
            /\ Callback("reduced", <<>>, 0)
       ELSE IF Silent(m, ReducedPeriod, sameMs)
       THEN /\ managers' = [managers EXCEPT
                               ![i] = [requestGPS(m) EXCEPT !.requestRem = ReducedPeriod]]
            /\ Callback("reduced", requestGPSWrites(m), 1)
       ELSE /\ managers' = [managers EXCEPT ![i].requestRem = ReducedPeriod]
            /\ Callback("reduced", <<>>, 0)
    /\ UNCHANGED <<jimiSock, jimiLoginCompleted, socketImei, settleTimers,
                   gpsManager, deviceSessions, pending, rupVars, bufVars, pureVars, peers>>

\* socket 'close' (src/index.js 796-813)
CloseFrom(from) ==
    /\ jimiSock = from
    /\ jimiSock' = "closed"
    /\ deviceSessions' = IF Truthy(socketImei) THEN deviceSessions \ {socketImei}
                         ELSE deviceSessions
    /\ managers' = IF Truthy(socketImei) /\ gpsManager # 0
                   THEN [managers EXCEPT ![gpsManager] = cleanup(@)]
                   ELSE managers
    /\ pending' = NoPending
    /\ Callback("close", <<>>, 0)
    /\ UNCHANGED <<jimiLoginCompleted, socketImei, settleTimers, gpsManager, rupVars, bufVars, pureVars, peers>>

\* the peer closes, or an error destroys the socket, and 'close' follows at once
Close == CloseFrom("open")

\* the remaining times of the timers that are set
Deadlines ==
    {settleTimers[i].rem : i \in DOMAIN settleTimers}
    \cup {managers[i].aggressiveRem :
             i \in {j \in DOMAIN managers : managers[j].aggressiveInterval = "live"}}
    \cup {managers[i].requestRem :
             i \in {j \in DOMAIN managers : managers[j].requestInterval # "null"}}

\* time passes up to the next timer
Advance ==
    /\ Deadlines # {}
    /\ requestsMade < MaxRequests
    /\ LET d == CHOOSE x \in Deadlines : \A y \in Deadlines : x <= y
       IN  /\ d > 0
           /\ settleTimers' = [i \in DOMAIN settleTimers |->
                                  [settleTimers[i] EXCEPT !.rem = @ - d]]
           /\ managers' = [i \in DOMAIN managers |->
                  [managers[i] EXCEPT
                      !.aggressiveRem = IF managers[i].aggressiveInterval = "live"
                                        THEN @ - d ELSE @,
                      !.requestRem = IF managers[i].requestInterval # "null"
                                     THEN @ - d ELSE @,
                      !.lastGPSReceived = IF @ = 0 - 1 THEN @
                                        ELSE Min(@ + d, AgeCap(managers[i]))]]
    /\ Callback("advance", <<>>, 0)
    /\ UNCHANGED <<jimiSock, jimiLoginCompleted, socketImei, gpsManager,
                   deviceSessions, pending, rupVars, bufVars, pureVars, peers>>

\* the subscribers whose send throws during the event: a send can only fail
\* in an event that starts with a location frame
FailingSets(f) == IF f.protocolNumber \in {34, 160} THEN {{}, {2}} ELSE {{}}

NextJimi ==
    \/ \E f \in JimiFrames, now \in ServerClocks :
          \E failing \in FailingSets(f) : JimiData(f, now, failing)
    \/ \E p \in CoalescedPairs, now \in ServerClocks :
          \E failing \in FailingSets(p[1]) : JimiCoalesced(p[1], p[2], now, failing)
    \/ \E f \in SplitFrames, now \in ServerClocks :
          \E k \in SplitPoints(f) : JimiFirstPart(f, k, now, {})
    \/ \E now \in ServerClocks : JimiSecondPart(now, {})
    \/ \E i \in DOMAIN settleTimers : SettleFire(i)
    \/ \E i \in DOMAIN managers : AggressiveTick(i)
    \/ \E i \in DOMAIN managers, sameMs \in BOOLEAN : NormalTick(i, sameMs)
    \/ \E i \in DOMAIN managers, sameMs \in BOOLEAN : ReducedTick(i, sameMs)
    \/ Close
    \/ Advance

SpecJimi == InitJimi /\ [][NextJimi]_vars


(***************************************************************************)
(* Claims on SpecJimi.                                                     *)
(***************************************************************************)
DataKinds == {"whole", "coalesced", "first", "second"}

TimerKinds == {"settle", "aggressive", "normal", "reduced"}

\* a frame written to the device is a request-location frame (0x80)
IsRequest(w) == ReadUInt8(w, 3) = 128

\* the serial a written frame carries
WrittenSerial(w) == ReadUInt16BE(w, Len(w) - 6)

\* the checksum field of a frame matches the CRC-ITU of bytes [2 .. total-4)
CrcValid(bytes) ==
    calculateJimiCRC16(Slice(bytes, 2, Len(bytes) - 4))
        = ReadUInt16BE(bytes, Len(bytes) - 4)

IsLoginFrame(f) == f.protocolNumber = JIMI_LOGIN

SocketNow ==
    [jimiLoginCompleted |-> jimiLoginCompleted, imei |-> socketImei,
     hasManager |-> gpsManager # 0]

\* C2: a Login frame whose CRC over bytes [2 .. total-4) is wrong is
\* discarded: the step that receives it writes no ACK, leaves the login flag
\* and the session IMEI as they were, starts no scheduler and no session, and
\* leaves the connection open.
C2_BadCrcLoginDiscarded ==
    [][(/\ lastEvent'.kind = "whole"
        /\ IsLoginFrame(lastEvent'.frames[1])
        /\ ~CrcValid(lastEvent'.frames[1].bytes))
       => (/\ jimiOut' = <<>>
           /\ jimiSock' = "open"
           /\ UNCHANGED <<jimiLoginCompleted, socketImei, settleTimers,
                          managers, gpsManager, deviceSessions>>)]_vars

\* C3: once the socket has closed, no callback of a poll-scheduler timer runs
\* and no request-location frame is written.
C3_NoTimerAfterClose ==
    jimiSock = "closed" =>
        /\ lastEvent.kind \notin TimerKinds
        /\ \A i \in DOMAIN jimiOut : ~IsRequest(jimiOut[i])

\* C4: a fix is sent to subscribers only if its positioned flag is set, its
\* latitude is within 90 and its longitude within 180 degrees, it is not
\* near (0, 0), and its fingerprint is not among the fixes already sent on
\* the session.
C4_OnlyFreshPositionedFixes ==
    \A i \in DOMAIN jimiSent :
        LET m == jimiSent[i].msg IN
        /\ m.positioned = 1
        /\ ~U32Less(ToU32(162000000), m.latitude.raw)
        /\ ~U32Less(ToU32(324000000), m.longitude.raw)
        /\ ~U32Less(m.latitude.raw, ToU32(181))
        /\ ~U32Less(m.longitude.raw, ToU32(181))
        /\ Fingerprint(m) \notin jimiWindow

\* C5: every ACK written in answer to a data event carries the protocol
\* number and the serial number of a frame of that event.
C5_AckEchoesSerial ==
    lastEvent.kind \in DataKinds =>
        \A i \in DOMAIN jimiOut :
            \E j \in DOMAIN lastEvent.frames :
                /\ ReadUInt8(jimiOut[i], 3) = lastEvent.frames[j].protocolNumber
                /\ WrittenSerial(jimiOut[i]) = lastEvent.frames[j].serialNumber

\* the timer loops of a scheduler that are set
LiveLoops(m) ==
    (IF m.aggressiveInterval = "live" THEN 1 ELSE 0)
    + (IF m.requestInterval # "null" THEN 1 ELSE 0)

RECURSIVE SumLoops(_)
SumLoops(ms) == IF ms = <<>> THEN 0 ELSE LiveLoops(Head(ms)) + SumLoops(Tail(ms))

\* C6 as stated: while the connection is open after Login, exactly one poll
\* scheduler exists, with exactly one live timer loop.
C6_ExactlyOneScheduler ==
    (jimiSock = "open" /\ socketImei # Undefined) =>
        (Len(managers) = 1 /\ SumLoops(managers) = 1)

\* C6 amended: at any time there is at most one poll scheduler and at most
\* one live timer loop; while the connection is open after Login, either the
\* scheduler's creation is pending (the settle delay) or exactly one
\* scheduler exists, and then exactly one of its timer loops is live.
C6_AtMostOneScheduler ==
    /\ Len(managers) <= 1
    /\ SumLoops(managers) <= 1
    /\ (jimiSock = "open" /\ socketImei # Undefined) =>
          /\ Len(settleTimers) + Len(managers) = 1
          /\ managers # <<>> => SumLoops(managers) = 1

\* an open session whose scheduler went from the aggressive loop through the
\* normal one to the reduced one
C6_SchedulerInReducedPhase ==
    /\ jimiSock = "open"
    /\ Len(managers) = 1
    /\ managers[1].requestInterval = "reduced"
    /\ managers[1].aggressiveInterval = "cleared"

\* C7: once Login has set the session IMEI, no step changes it (the
\* connection's close included).
C7_ImeiNeverChanges ==
    [][socketImei # Undefined => socketImei' = socketImei]_vars

\* a session that has its IMEI has just received a Login frame naming another
C7_LaterLoginSeen ==
    /\ socketImei # Undefined
    /\ lastEvent.kind = "whole"
    /\ IsLoginFrame(lastEvent.frames[1])
    /\ Len(lastEvent.frames[1].bytes) >= 16
    /\ BcdString(Slice(lastEvent.frames[1].bytes, 4, 12)) # socketImei

\* C8: of a frame that TCP delivers in two data events, nothing is processed
\* when the first part arrives, and when the second part arrives the frame is
\* processed exactly as if it had arrived whole.
C8_SplitFrameProcessedOnce ==
    [][/\ lastEvent'.kind = "first" =>
             (jimiOut' = <<>> /\ jimiSent' = <<>> /\ dispatched' = <<>>)
       /\ lastEvent'.kind = "second" =>
             \E now \in ServerClocks :
                LET e == processJimiIoTDataImproved(pending.frames[1].bytes,
                             SocketNow, clients, now, {})
                IN  /\ jimiOut' = e.writes
                    /\ jimiSent' = e.sent
                    /\ dispatched' = e.dispatched]_vars

\* C9: two frames that arrive back to back in one data event are handled one
\* after the other, each with its own protocol number, serial number and ACK.
C9_CoalescedFramesHandledSeparately ==
    [][lastEvent'.kind = "coalesced" =>
          \E now \in ServerClocks :
             LET f == lastEvent'.frames[1]
                 g == lastEvent'.frames[2]
                 e1 == processJimiIoTDataImproved(f.bytes, SocketNow, clients, now, {})
                 then == [jimiLoginCompleted |-> e1.jimiLoginCompleted,
                          imei |-> e1.imei, hasManager |-> gpsManager # 0]
                 e2 == processJimiIoTDataImproved(g.bytes, then, clients, now, {})
             IN  /\ jimiOut' = e1.writes \o e2.writes
                 /\ dispatched' = e1.dispatched \o e2.dispatched]_vars

\* C19: a Login frame that arrives on a connection whose login is completed
\* is ignored: no ACK is written, the IMEI, the login flag and the scheduler
\* stay as they were, no second scheduler and no timer for one is created.
C19_DuplicateLoginIgnored ==
    [][(/\ jimiLoginCompleted
        /\ lastEvent'.kind = "whole"
        /\ IsLoginFrame(lastEvent'.frames[1]))
       => (/\ jimiOut' = <<>>
           /\ UNCHANGED <<jimiLoginCompleted, socketImei, settleTimers,
                          managers, gpsManager, deviceSessions>>)]_vars

\* a well-formed Login frame has just arrived on a connection that has its
\* scheduler, and nothing was written
C19_LoginWhilePolling ==
    /\ jimiLoginCompleted
    /\ gpsManager # 0
    /\ Len(managers) = 1
    /\ lastEvent.kind = "whole"
    /\ IsLoginFrame(lastEvent.frames[1])
    /\ CrcValid(lastEvent.frames[1].bytes)
    /\ jimiOut = <<>>

\* the serial number field of a frame the device sent
FrameSerial(f) == ReadUInt16BE(f.bytes, Len(f.bytes) - 6)

\* C20: the Login ACK, with the serial of the login frame, is written before
\* the scheduler is created and before any request-location frame: the timer
\* that will create the scheduler is set only by a step that writes that ACK
\* and nothing else, the scheduler is created only when such a timer fires,
\* and a request-location frame is written only once a scheduler exists.
C20_LoginAckBeforeScheduler ==
    [][/\ Len(settleTimers') > Len(settleTimers)
          => /\ IsLoginFrame(lastEvent'.frames[1])
             /\ jimiOut' = <<createJimiACK(JIMI_LOGIN,
                                           FrameSerial(lastEvent'.frames[1]))>>
             /\ managers' = managers
       /\ Len(managers') > Len(managers)
          => /\ lastEvent'.kind = "settle"
             /\ Len(settleTimers') < Len(settleTimers)
       /\ (\E i \in DOMAIN jimiOut' : IsRequest(jimiOut'[i]))
          => managers' # <<>>]_vars

\* C21: in the aggressive phase the scheduler fires a request on entry and
\* then on each 15 s tick, 6 fires at most, and then hands off to the steady
\* loop: a scheduler starts with one fire made, its count of fires grows by
\* one only in a tick of the aggressive timer that is due and makes a request,
\* the count never passes 6, and the steady loop is started only when the
\* aggressive timer is cleared after the 6th fire.
C21_AggressivePhase ==
    [][\A i \in DOMAIN managers' :
          /\ managers'[i].aggressiveCount <= maxAggressive
          /\ managers'[i].requestInterval # "null"
                => /\ managers'[i].aggressiveInterval = "cleared"
                   /\ managers'[i].aggressiveCount = maxAggressive
          /\ i \notin DOMAIN managers
                => /\ managers'[i].aggressiveCount = 1
                   /\ managers'[i].aggressiveInterval = "live"
                   /\ managers'[i].aggressiveRem = AggressivePeriod
                   /\ requestsMade' = requestsMade + 1
          /\ (i \in DOMAIN managers
              /\ managers'[i].aggressiveCount # managers[i].aggressiveCount)
                => /\ managers'[i].aggressiveCount = managers[i].aggressiveCount + 1
                   /\ lastEvent'.kind = "aggressive"
                   /\ managers[i].aggressiveRem = 0
                   /\ managers'[i].aggressiveRem = AggressivePeriod
                   /\ requestsMade' = requestsMade + 1]_vars

\* the aggressive timer has just handed off to the steady loop after 6 fires
C21_HandedOffToSteady ==
    /\ jimiSock = "open"
    /\ lastEvent.kind = "aggressive"
    /\ \E i \in DOMAIN managers :
          /\ managers[i].aggressiveCount = maxAggressive
          /\ managers[i].aggressiveInterval = "cleared"
          /\ managers[i].requestInterval = "normal"
          /\ managers[i].requestRem = NormalPeriod
    /\ requestsMade = maxAggressive

\* C22: a tick of the steady loop (every 60 s) on an open connection sends one
\* request-location and stays in the steady loop when no fix was received in
\* the last 90 s or none at all; when a fix was received less than 90 s ago
\* it marks the device as autonomously reporting, sends nothing and hands off
\* to the idle loop.
C22_SteadyTick ==
    [][(lastEvent'.kind = "normal" /\ jimiSock = "open")
       => \A i \in DOMAIN managers :
             (managers[i].requestInterval = "normal" /\ managers[i].requestRem = 0)
             => IF \/ managers[i].lastGPSReceived = 0 - 1
                   \/ managers[i].lastGPSReceived >= NormalSilence
                THEN /\ Len(jimiOut') = 1 /\ IsRequest(jimiOut'[1])
                     /\ managers'[i].requestInterval = "normal"
                     /\ managers'[i].requestRem = NormalPeriod
                ELSE /\ jimiOut' = <<>>
                     /\ managers'[i].isDeviceResponding
                     /\ managers'[i].requestInterval = "reduced"]_vars

\* the fix a location frame carries is decoded and found invalid
InvalidFix(f) ==
    /\ f.protocolNumber \in {34, 160}
    /\ \E parsedData \in {processGPSLocationPacket(f.bytes, f.protocolNumber)} :
          parsedData # Thrown /\ ~parsedData.valid

\* C23: a location frame whose fix is invalid is dropped: nothing is sent to
\* a subscriber, and the scheduler is left as it was (its time of the last fix
\* is not updated, it is not moved to the idle loop).
C23_InvalidFixNotCounted ==
    [][(lastEvent'.kind = "whole" /\ InvalidFix(lastEvent'.frames[1]))
       => (jimiSent' = <<>> /\ managers' = managers)]_vars

\* C24: every scheduler fire that requests location on an open socket writes
\* exactly one request-location frame (0x80); its serial is one greater
\* than the serial of the previous request-location frame, and the first one
\* carries the serial of the login
C24_RequestSerialChain ==
    [][(requestsMade' = requestsMade + 1 /\ jimiSock = "open")
          => /\ Len(jimiOut') = 1
             /\ IsRequest(jimiOut'[1])
             /\ CrcValid(jimiOut'[1])
             /\ IF lastRequest = 0 - 1
                THEN \E i \in DOMAIN settleTimers :
                        /\ settleTimers[i].rem = 0
                        /\ WrittenSerial(jimiOut'[1]) = settleTimers[i].serial
                ELSE WrittenSerial(jimiOut'[1]) = lastRequest + 1]_vars

\* C27: a login whose BCD-decoded IMEI has fewer than 14 or more than 16
\* digits is rejected: the session does not become LoggedIn, no IMEI is
\* stamped, no Login ACK is written and no poll scheduler is set up
C27_ShortImeiRejected ==
    [][(/\ lastEvent'.kind = "whole"
        /\ IsLoginFrame(lastEvent'.frames[1])
        /\ ~jimiLoginCompleted
        /\ \E parsed \in {processLoginPacket(lastEvent'.frames[1].bytes)} :
              parsed # Thrown /\ Len(parsed.imei) \notin 14..16)
       => (/\ ~jimiLoginCompleted'
           /\ socketImei' = socketImei
           /\ jimiOut' = <<>>
           /\ settleTimers' = settleTimers)]_vars

\* C37: on a Jimi connection the login-completed flag is set only if the
\* session IMEI is set (and a Login ACK was written with it), so that a
\* truncated frame with protocol 0x01 cannot leave the connection where
\* every later login is dropped as a duplicate
C37_LoginFlagImpliesImei ==
    jimiLoginCompleted => Truthy(socketImei)

\* C39: while the connection has not completed login, a frame other than a
\* Login frame causes no write to the socket and no emission to subscribers,
\* and every jimi-data message carries the IMEI of the login of its
\* connection, never the placeholder
C39_NothingBeforeLogin ==
    [][/\ (/\ lastEvent'.kind = "whole"
           /\ ~jimiLoginCompleted
           /\ ~IsLoginFrame(lastEvent'.frames[1]))
          => (jimiOut' = <<>> /\ jimiSent' = <<>>)
       /\ \A i \in DOMAIN jimiSent' :
             /\ jimiSent'[i].msg.imei # "jimi_ll301"
             /\ jimiSent'[i].msg.imei = socketImei']_vars

\* C40: whatever the login serial in 0..65535 and however many fires went
\* before, a scheduler fire on an open socket transmits a request-location
\* frame, and the value in its 16-bit serial field is within 0..65535 (the
\* counter wraps modulo 2^16)
C40_FireAlwaysTransmits ==
    [][(requestsMade' = requestsMade + 1 /\ jimiSock = "open")
          => /\ jimiOut' # <<>>
             /\ \A i \in DOMAIN jimiOut' :
                   /\ IsRequest(jimiOut'[i])
                   /\ WrittenSerial(jimiOut'[i]) \in 0..65535]_vars


(***************************************************************************)
(* SpecRupBuf: the bytes of one Ruptela connection (src/index.js 734-762). *)
(***************************************************************************)
MaxWireFrames == 3

BufferResetLimit == 10000

\* frames of the device 356938035643809, each with its Kermit CRC
RupHeartbeat == <<0, 9, 0, 1, 68, 162, 28, 210, 69, 161, 16, 58, 72>>

RupDynamicId == <<0, 11, 0, 1, 68, 162, 28, 210, 69, 161, 18, 1, 2, 153, 13>>

\* command 1, one record (position 1 of the track, speed 50) with one 1-byte
\* and one 2-byte IO element
RupRecords ==
    <<0, 43, 0, 1, 68, 162, 28, 210, 69, 161, 1, 0, 1, 101, 144, 0, 1, 0, 1,
      196, 233, 121, 46, 11, 149, 46, 34, 87, 128, 35, 40, 9, 0, 50, 12, 0,
      1, 5, 1, 1, 29, 48, 57, 0, 0, 46, 170>>

\* command 68, one record (position 2 of the track, speed 50) with one
\* 1-byte IO element
RupExtRecords ==
    <<0, 43, 0, 1, 68, 162, 28, 210, 69, 161, 68, 0, 1, 101, 144, 0, 2, 0, 0,
      1, 196, 233, 121, 36, 11, 149, 46, 44, 87, 128, 35, 40, 9, 0, 50, 12,
      0, 0, 1, 0, 5, 1, 0, 0, 0, 60, 100>>

\* command 1, one record (position 3 of the track, speed 50), the last CRC
\* byte damaged (113, 205 is the CRC of the body)
RupBadCrc ==
    <<0, 38, 0, 1, 68, 162, 28, 210, 69, 161, 1, 0, 1, 101, 144, 0, 3, 0, 1,
      196, 233, 121, 26, 11, 149, 46, 54, 87, 128, 35, 40, 9, 0, 50, 12, 0,
      0, 0, 0, 0, 113, 204>>

\* a heartbeat whose length field says 10 where 9 bytes follow before the CRC
RupBadLength == <<0, 10, 0, 1, 68, 162, 28, 210, 69, 161, 16, 58, 72>>

\* command 15 with an empty payload
RupIdentification == <<0, 9, 0, 1, 68, 162, 28, 210, 69, 161, 15, 210, 62>>

\* command 7, which the parser does not handle
RupUnknown == <<0, 9, 0, 1, 68, 162, 28, 210, 69, 161, 7, 94, 118>>

ValidRupFrames ==
    {RupHeartbeat, RupDynamicId, RupRecords, RupExtRecords, RupIdentification,
     RupUnknown}

RupFrames == ValidRupFrames \cup {RupBadCrc, RupBadLength}

\* where TCP may cut what the device has sent: after everything sent so far,
\* inside the header of the first frame, or inside a later part
Cuts(bytes) == {k \in {5, 20, Len(bytes)} : 1 <= k /\ k <= Len(bytes)}

\* the cache entry of an IMEI (gpsDataCache.get(imei) || no records)
KnownImei(decodedData) == decodedData.imei \in DOMAIN gpsDataCache

\* the device writes a frame to its socket
DeviceSend(frame) ==
    /\ wireSent < MaxWireFrames
    /\ wire' = wire \o frame
    /\ wireSent' = wireSent + 1
    /\ UNCHANGED <<dataBuffer, rupSock, rupVars, jimiVars, pureVars, peers>>

\* socket.on('data') of a Ruptela port with the first k bytes in flight
RupData(k, failing) ==
    /\ Readable(rupSock)
    /\ k \in Cuts(wire)
    /\ wire' = SubSeq(wire, k + 1, Len(wire))
    /\ UNCHANGED <<wireSent, jimiVars, pureVars, peers>>
    /\ \E buffered \in {dataBuffer \o SubSeq(wire, 1, k)} :
       \E hexData \in {ToHex(buffered)} :
         IF Len(hexData) >= 22
         THEN \E decodedData \in {parseRuptelaPacketWithExtensions(hexData)} :
                IF decodedData = Thrown
                THEN /\ dataBuffer' = IF Len(buffered) > BufferResetLimit
                                      THEN <<>> ELSE buffered
                     /\ rupOut' = <<>>
                     /\ UNCHANGED <<gpsDataCache, clients, presented, wsReply, inbox, lastDecoded,
                                    framesDone, sortedInput, lastTs, sendThrew>>
                ELSE /\ KnownImei(decodedData)
                     /\ Processed(decodedData, failing)
                     /\ dataBuffer' = <<>>
         ELSE /\ dataBuffer' = buffered
              /\ rupOut' = <<>>
              /\ UNCHANGED <<gpsDataCache, clients, presented, wsReply, inbox, lastDecoded,
                             framesDone, sortedInput, lastTs, sendThrew>>
    /\ rupSock' = IF rupSock = "ended" /\ rupOut' # <<>> THEN "destroyed" ELSE rupSock

NextRupBuf ==
    \/ \E frame \in RupFrames : DeviceSend(frame)
    \/ \E k \in 1..(MaxWireFrames * 47), failing \in {{}, {2}} : RupData(k, failing)

SpecRupBuf == InitRuptela /\ [][NextRupBuf]_vars


(***************************************************************************)
(* Claims on SpecRupBuf.                                                   *)
(***************************************************************************)
\* the bytes start with a whole frame: a length field L, L bytes and the
\* Kermit CRC of those L bytes
CompleteFrameAtHead(bytes) ==
    /\ Len(bytes) >= 4
    /\ Len(bytes) >= ReadUInt16BE(bytes, 0) + 4
    /\ \E L \in {ReadUInt16BE(bytes, 0)} :
          calculateCRC16(Slice(bytes, 2, 2 + L)) = ReadUInt16BE(bytes, 2 + L)

\* C10: when the buffer of a Ruptela connection holds a complete valid frame
\* followed by further bytes, the frame is taken out and processed and only
\* the bytes after it stay buffered: once a 'data' event has been handled, the
\* buffer never starts with a complete valid frame.
C10_NoCompleteFrameLeftBuffered == ~CompleteFrameAtHead(dataBuffer)

\* the declared length of the bytes agrees with their number
LengthConsistent(bytes) ==
    Len(bytes) >= 4 /\ ReadUInt16BE(bytes, 0) = Len(bytes) - 4

\* the bytes the 'data' event of this step hands to the decoder
Buffered == dataBuffer \o SubSeq(wire, 1, Len(wire) - Len(wire'))

\* C11: after a framing error on a Ruptela connection the offending frame is
\* discarded and the connection is kept: when the buffer holds a frame whose
\* declared length is inconsistent with its bytes and the device then sends a
\* valid frame that arrives whole, that frame is decoded and taken out of the
\* buffer.
C11_ValidFrameDecodedAfterFramingError ==
    [][(/\ dataBuffer = RupBadLength
        /\ wire \in ValidRupFrames
        /\ wire' = <<>>)
       => (/\ framesDone' = framesDone + 1
           /\ lastDecoded' = parseRuptelaPacketWithExtensions(ToHex(wire))
           /\ dataBuffer' = <<>>)]_vars

\* a positive ACK of a Ruptela frame: acknowledgement byte 1
PositiveAck(w) == Len(w) >= 4 /\ w[4] = 1

\* C12: a Ruptela frame whose last two bytes are not the CRC16/Kermit of the
\* bytes between the length field and the CRC is never decoded: no message
\* reaches a subscriber, the recent-records window does not change and no
\* positive ACK is written.
C12_BadCrcFrameNotDecoded ==
    [][(/\ wire' # wire
        /\ Len(wire') < Len(wire)
        /\ LengthConsistent(Buffered)
        /\ ~CompleteFrameAtHead(Buffered))
       => (/\ inbox' = inbox
           /\ gpsDataCache' = gpsDataCache
           /\ \A i \in DOMAIN rupOut' : ~PositiveAck(rupOut'[i]))]_vars

\* the command id of a frame written to a Ruptela socket
AckCommand(w) == ReadUInt8(w, 2)

\* C29: the command id of the ACK written for a Ruptela frame follows from
\* the received command id as 1 -> 100, 68 -> 100, 15 -> 115, 16 -> 116; a
\* frame with one of these commands is answered, and no frame with another
\* response command id is ever written.
C29_AckCommandMapping ==
    [][Len(wire') < Len(wire)
          => /\ \A i \in DOMAIN rupOut' :
                   /\ framesDone' = framesDone + 1
                   /\ \E c \in {lastDecoded'.commandId} :
                         \/ c \in {1, 68} /\ AckCommand(rupOut'[i]) = 100
                         \/ c = 15 /\ AckCommand(rupOut'[i]) = 115
                         \/ c = 16 /\ AckCommand(rupOut'[i]) = 116
             /\ (/\ framesDone' = framesDone + 1
                 /\ lastDecoded'.commandId \in {1, 68, 15, 16})
                   => rupOut' # <<>>]_vars

\* an identification frame, an extended-records frame and a heartbeat have
\* been received in turn, and the heartbeat has just been answered with 116
C29_HeartbeatAnswered ==
    /\ framesDone = 3
    /\ lastDecoded.commandId = 16
    /\ Len(rupOut) = 1
    /\ AckCommand(rupOut[1]) = 116
    /\ wireSent = 3
    /\ wire = <<>>

\* C35: every Ruptela identification frame, command 15 or command 18
\* (Dynamic Identification), is answered with exactly one Identification
\* ACK: six bytes, command 115, payload 01 (authorized)
C35_IdentificationAcked ==
    [][(/\ framesDone' = framesDone + 1
        /\ lastDecoded'.commandId \in {15, 18})
          => /\ Len(rupOut') = 1
             /\ Len(rupOut'[1]) = 6
             /\ AckCommand(rupOut'[1]) = 115
             /\ ReadUInt8(rupOut'[1], 3) = 1]_vars

\* the protocol numbers processJimiIoTDataImproved has a case for
JimiCases == {JIMI_LOGIN, 138, 35, 54, 34, 160, 125, 32}

\* C26: a frame decoded as Unknown gets one generic ACK, on the Jimi side and
\* on the Ruptela side, unless its code is in the no-reply set
\* {0x12, 0x13, 0x16}; then nothing is written to the socket.
C26_UnknownGetsGenericAck ==
    [][/\ (lastEvent'.kind = "whole" /\ lastEvent'.frames[1].protocolNumber \notin JimiCases)
          => \E f \in {lastEvent'.frames[1]} :
                jimiOut' = IF f.protocolNumber \in NoReplyProtocols THEN <<>>
                           ELSE <<createJimiACK(f.protocolNumber, f.serialNumber)>>
       /\ (framesDone' = framesDone + 1 /\ lastDecoded'.type = "unknown")
          => IF lastDecoded'.commandId \in NoReplyProtocols
             THEN rupOut' = <<>>
             ELSE Len(rupOut') = 1]_vars


(***************************************************************************)
(* SpecSubs: WebSocket subscribers attach, authenticate and detach while   *)
(* Records frames arrive (src/index.js 663-691, 599-611).                  *)
(***************************************************************************)
\* the subscribers that are in the clients map
Attached == {clients[i].ws : i \in DOMAIN clients}

\* position of ws in the clients map
ClientIndex(ws) == CHOOSE i \in DOMAIN clients : clients[i].ws = ws

\* the frames that arrive while subscribers come and go
SubsFrames == {<<1, Batch(1, 1, 50)>>, <<1, Batch(2, 1, 50)>>}

MaxSubsFrames == 2

InitSubs ==
    /\ RuptelaIdle
    /\ clients = <<>>
    /\ presented = {}
    /\ wsReply = [c \in ClientIds |-> "none"]
    /\ JimiStart
    /\ BufferStart
    /\ PureStart

\* wss.on('connection'): clients.set(ws, { authenticated: false })
WsConnection(ws) ==
    /\ ws \notin Attached
    /\ clients' = Append(clients, [ws |-> ws, authenticated |-> FALSE,
                                   readyState |-> 1])
    /\ UNCHANGED <<presented, wsReply, gpsDataCache, inbox, rupOut, lastDecoded, framesDone,
                   sortedInput, lastTs, sendThrew, jimiVars, bufVars, pureVars, peers>>

\* ws.on('message') with an authenticate message whose token decrypts to the
\* secret: clients.set(ws, { authenticated: true }) keeps the place of ws in
\* the map; send() on a socket that is closing sends nothing
WsValidToken(ws) ==
    /\ ws \in Attached
    /\ clients' = [clients EXCEPT ![ClientIndex(ws)].authenticated = TRUE]
    /\ presented' = presented \cup {ws}
    /\ wsReply' = IF clients[ClientIndex(ws)].readyState = 1
                  THEN [wsReply EXCEPT ![ws] = "authentication-success"]
                  ELSE wsReply
    /\ UNCHANGED <<gpsDataCache, inbox, rupOut, lastDecoded, framesDone,
                   sortedInput, lastTs, sendThrew, jimiVars, bufVars, pureVars, peers>>

\* ws.on('message') with a wrong token (authentication-error, ws.close()) or
\* with a message that makes JSON.parse or decrypt throw (ws.close()): the
\* socket is CLOSING (2) until its 'close' event
WsBadMessage(ws, malformed) ==
    /\ ws \in Attached
    /\ clients' = [clients EXCEPT ![ClientIndex(ws)].readyState = 2]
    /\ wsReply' = IF ~malformed /\ clients[ClientIndex(ws)].readyState = 1
                  THEN [wsReply EXCEPT ![ws] = "authentication-error"]
                  ELSE wsReply
    /\ UNCHANGED <<presented, gpsDataCache, inbox, rupOut, lastDecoded,
                   framesDone, sortedInput, lastTs, sendThrew, jimiVars, bufVars, pureVars, peers>>

\* ws.on('close'): clients.delete(ws)
WsClose(ws) ==
    /\ ws \in Attached
    /\ clients' = RemoveAt(clients, ClientIndex(ws))
    /\ presented' = presented \ {ws}
    /\ wsReply' = [wsReply EXCEPT ![ws] = "none"]
    /\ UNCHANGED <<gpsDataCache, inbox, rupOut, lastDecoded,
                   framesDone, sortedInput, lastTs, sendThrew, jimiVars, bufVars, pureVars, peers>>

NextSubs ==
    \/ \E ws \in ClientIds : WsConnection(ws)
    \/ \E ws \in ClientIds : WsValidToken(ws)
    \/ \E ws \in ClientIds, malformed \in BOOLEAN : WsBadMessage(ws, malformed)
    \/ \E ws \in ClientIds : WsClose(ws)
    \/ \E frame \in SubsFrames :
          framesDone < MaxSubsFrames /\ RecordsFrame(frame[1], frame[2], {})

SpecSubs == InitSubs /\ [][NextSubs]_vars


(***************************************************************************)
(* Claims on SpecSubs.                                                     *)
(***************************************************************************)
\* C18: whatever the order of attach, authenticate (valid or invalid token),
\* detach and fix arrivals, a fix is delivered to a subscriber only if it is
\* attached, has presented a valid token since it attached and its channel is
\* writable.
C18_OnlyAuthenticatedReceive ==
    [][\A c \in ClientIds :
          NewMsgs(c) # <<>>
          => /\ c \in Attached
             /\ c \in presented
             /\ clients[ClientIndex(c)].readyState = 1]_vars

\* a fix reached a subscriber while another one was attached without a token
\* and a third one, authenticated before, was closing
C18_FixAmongMixedSubscribers ==
    /\ rupOut # <<>>
    /\ \E a, b, c \in Attached :
          /\ a # b /\ a # c /\ b # c
          /\ inbox[a] # <<>> /\ a \in presented
             /\ clients[ClientIndex(a)].readyState = 1
          /\ b \notin presented /\ inbox[b] = <<>>
             /\ clients[ClientIndex(b)].readyState = 1
          /\ c \in presented /\ clients[ClientIndex(c)].readyState = 2




(***************************************************************************)
(* SpecIdle: the life of the two device sockets (src/index.js 703-813).    *)
(* 'timeout' half-closes the socket with socket.end(); a write on an ended *)
(* socket fails with ERR_STREAM_WRITE_AFTER_END, which destroys it;        *)
(* 'error' destroys it; the peer's FIN ends and destroys it (allowHalfOpen *)
(* is false); 'close' follows a destroy.  The idle timer restarts at every *)
(* read and write, so the timeout is taken while no scheduler timer of     *)
(* the connection is set.                                                  *)
(***************************************************************************)
MaxIdleFrames == 1

MaxIdleRequests == 2

IdleFrames == {LoginA, HeartbeatStatus}

IdleRupFrames == {RupHeartbeat}

\* socket.on('timeout') of the Jimi port
JimiTimeout ==
    /\ jimiSock = "open"
    /\ Deadlines = {}
    /\ pending = NoPending
    /\ jimiSock' = "ended"
    /\ Callback("timeout", <<>>, 0)
    /\ UNCHANGED <<jimiLoginCompleted, socketImei, settleTimers, managers,
                   gpsManager, deviceSessions, pending, rupVars, bufVars, pureVars, peers>>

\* the peer's FIN ('end') or socket.on('error'): the socket is destroyed
JimiDestroy(cause) ==
    /\ jimiSock \in {"open", "ended"}
    /\ jimiSock' = "destroyed"
    /\ Callback(cause, <<>>, 0)
    /\ UNCHANGED <<jimiLoginCompleted, socketImei, settleTimers, managers,
                   gpsManager, deviceSessions, pending, rupVars, bufVars, pureVars, peers>>

\* socket.on('close') of a destroyed socket
JimiClosed == CloseFrom("destroyed")

\* 'close' is emitted before any timer can fire
IdleAdvance ==
    /\ jimiSock # "destroyed"
    /\ requestsMade < MaxIdleRequests
    /\ Advance

\* socket.on('timeout') of a Ruptela port
RupTimeout ==
    /\ rupSock = "open"
    /\ rupSock' = "ended"
    /\ rupOut' = <<>>
    /\ UNCHANGED <<gpsDataCache, clients, inbox, lastDecoded, framesDone,
                   sortedInput, lastTs, sendThrew, presented, wsReply,
                   dataBuffer, wire, wireSent, jimiVars, pureVars, peers>>

\* the device sends one frame while nothing is in flight
IdleDeviceSend(frame) ==
    /\ rupSock \in {"open", "ended"}
    /\ wire = <<>>
    /\ wireSent < MaxIdleFrames
    /\ DeviceSend(frame)

\* a whole frame arrives in one data event
IdleRupData ==
    /\ wire # <<>>
    /\ RupData(Len(wire), {})

\* the peer's FIN or socket.on('error') on a Ruptela port
RupDestroy ==
    /\ rupSock \in {"open", "ended"}
    /\ rupSock' = "destroyed"
    /\ rupOut' = <<>>
    /\ UNCHANGED <<gpsDataCache, clients, inbox, lastDecoded, framesDone,
                   sortedInput, lastTs, sendThrew, presented, wsReply,
                   dataBuffer, wire, wireSent, jimiVars, pureVars, peers>>

\* socket.on('close') of a Ruptela port: nothing to clean
RupClosed ==
    /\ rupSock = "destroyed"
    /\ rupSock' = "closed"
    /\ rupOut' = <<>>
    /\ UNCHANGED <<gpsDataCache, clients, inbox, lastDecoded, framesDone,
                   sortedInput, lastTs, sendThrew, presented, wsReply,
                   dataBuffer, wire, wireSent, jimiVars, pureVars, peers>>

\* what the server does by itself: timers and the 'close' after a destroy
ServerSteps ==
    \/ \E i \in DOMAIN settleTimers : SettleFire(i)
    \/ \E i \in DOMAIN managers : AggressiveTick(i)
    \/ IdleAdvance
    \/ JimiClosed
    \/ RupClosed

\* what the peers and the network do
PeerSteps ==
    \/ \E f \in IdleFrames, now \in ServerClocks : JimiData(f, now, {})
    \/ JimiTimeout
    \/ \E cause \in {"end", "error"} : JimiDestroy(cause)
    \/ \E frame \in IdleRupFrames : IdleDeviceSend(frame)
    \/ IdleRupData
    \/ RupTimeout
    \/ RupDestroy

NextIdle == ServerSteps \/ PeerSteps

SpecIdle == InitRuptela /\ [][NextIdle]_vars /\ WF_vars(ServerSteps)


(***************************************************************************)
(* Claims on SpecIdle.                                                     *)
(***************************************************************************)
\* the ACK frames among the frames written to the Jimi socket
JimiAcks(writes) == {i \in DOMAIN writes : ~IsRequest(writes[i])}

\* C25: once a device socket is Closed, no ACK frame is written to it,
\* whatever data, timeout, error and close events came before and whatever
\* timer fires afterwards; on the Jimi socket the only frames a step can
\* still write are request-location frames, on a Ruptela socket none
C25_NoAckAfterClosed ==
    [][/\ jimiSock = "closed" => JimiAcks(jimiOut') = {}
       /\ rupSock = "closed" => rupOut' = <<>>]_vars

\* both sockets are closed, a frame of the Ruptela device was still in
\* flight, and a timer of the Jimi session has fired since
C25_TimerAfterBothClosed ==
    /\ jimiSock = "closed"
    /\ rupSock = "closed"
    /\ wire # <<>>
    /\ jimiLoginCompleted
    /\ lastEvent.kind \in {"settle", "aggressive"}

\* C28: after the idle timeout of a connection has fired, the session
\* reaches Closed whatever the peer does, and no timer of its scheduler is
\* left
C28_TimeoutLeadsToClosed ==
    /\ (jimiSock = "ended") ~> (jimiSock = "closed" /\ Deadlines = {})
    /\ (rupSock = "ended") ~> (rupSock = "closed")


(***************************************************************************)
(* The codec functions on their own: one input is drawn, the function it   *)
(* names is applied once to it.                                            *)
(***************************************************************************)
\* serial numbers a frame carries
AckSerials == {0, 1, 4, 255, 256, 65535}

\* protocol numbers of the 10-byte frames
AckProtocols == 0..255

\* CRC-ITU (X-25) computed bit by bit, as a device does: from 0xFFFF,
\* reflected polynomial 0x8408, inverted at the end
DeviceCrc(data) == 65535 - KermitLoop(65535, data, 1, Len(data))

\* the 10-byte frame 78 78 05 <proto> <serial> <crc> 0D 0A as a device sends it
AckShaped(protocolNumber, serial) ==
    LET body == <<5, protocolNumber>> \o U16Bytes(serial)
    IN  <<120, 120>> \o body \o U16Bytes(DeviceCrc(body)) \o <<13, 10>>

HandlerProbes ==
    {[fn |-> "handler", frame |-> AckShaped(p, n)] :
        p \in AckProtocols, n \in AckSerials}

\* the login frame of the protocol description, as captured
LoginOfSpec ==
    <<120, 120, 17, 1, 3, 81, 18, 52, 86, 120, 154, 188, 54, 0, 54, 1,
      0, 1, 140, 221, 13, 10>>

\* bytes an IMEI field can hold: digits only, a filler nibble on either side,
\* two fillers
ImeiBytes == {3, 81, 154, 188, 165, 255}

\* a login frame as a device builds it, with three of the IMEI bytes drawn
LoginFrame(a, b, c, serial) ==
    LET body == <<17, 1, a, 81, 18, 52, 86, 120, b, c, 54, 0, 54, 1>>
                \o U16Bytes(serial)
    IN  <<120, 120>> \o body \o U16Bytes(DeviceCrc(body)) \o <<13, 10>>

LoginProbes ==
    {[fn |-> "login", frame |-> LoginOfSpec]}
    \cup {[fn |-> "login", frame |-> LoginFrame(a, b, c, n)] :
             a \in ImeiBytes, b \in ImeiBytes, c \in ImeiBytes, n \in {1, 65535}}

\* "123456789" in ASCII
CheckString == <<49, 50, 51, 52, 53, 54, 55, 56, 57>>

\* inputs of the checksum: the reference inputs, every single byte (one per
\* table entry) and the bodies of ACK frames
CrcProbes ==
    {[fn |-> "crc", data |-> d] : d \in {<<>>, CheckString, <<5, 1, 0, 1>>}}
    \cup {[fn |-> "crc", data |-> <<b>>] : b \in 0..255}
    \cup {[fn |-> "crc", data |-> <<5, 35>> \o U16Bytes(n)] : n \in AckSerials}

LoginAckProbes == {[fn |-> "loginAck", serial |-> n] : n \in AckSerials}

\* raw 32-bit coordinate fields of a Ruptela record, as four bytes: the
\* limits +-90 and +-180 degrees, one step beyond them, the ends of the
\* signed range and a place on the test track
RupLatFields ==
    {<<11, 149, 46, 24>>, <<53, 164, 233, 0>>, <<53, 164, 233, 1>>,
     <<202, 91, 23, 0>>, <<202, 91, 22, 255>>, <<127, 255, 255, 255>>,
     <<128, 0, 0, 1>>}

RupLonFields ==
    {<<196, 233, 121, 56>>, <<107, 73, 210, 0>>, <<107, 73, 210, 1>>,
     <<148, 182, 46, 0>>, <<148, 182, 45, 255>>, <<127, 255, 255, 255>>,
     <<128, 0, 0, 1>>}

RecordProbes ==
    {[fn |-> "record", lat |-> a, lon |-> o] :
        a \in RupLatFields, o \in RupLonFields}

\* raw unsigned 32-bit coordinate fields of a Jimi fix, as <<hi16, lo16>>:
\* 0, 180 and 181 (0.0001 degrees and one step more), the limits 90 and 180
\* degrees and one step around them, the end of the range, one place
JimiLatFields ==
    {<<0, 0>>, <<0, 180>>, <<0, 181>>, <<533, 48312>>, <<2471, 60544>>,
     <<2471, 60545>>, <<65535, 65535>>}

JimiLonFields ==
    {<<0, 0>>, <<0, 180>>, <<0, 181>>, <<2716, 4224>>, <<4943, 55551>>,
     <<4943, 55552>>, <<4943, 55553>>, <<65535, 65535>>}

\* the 4G location frame GpsFix with other coordinate fields
GpsFrame(lat, lon) ==
    LET body == SubSeq(GpsFix.bytes, 3, 11)
                \o U16Bytes(lat[1]) \o U16Bytes(lat[2])
                \o U16Bytes(lon[1]) \o U16Bytes(lon[2])
                \o SubSeq(GpsFix.bytes, 20, Len(GpsFix.bytes) - 4)
    IN  <<120, 120>> \o body \o U16Bytes(DeviceCrc(body)) \o <<13, 10>>

FixProbes ==
    {[fn |-> "handler", frame |-> GpsFrame(a, o)] :
        a \in JimiLatFields, o \in JimiLonFields}

CodecProbes ==
    HandlerProbes \cup LoginProbes \cup CrcProbes \cup LoginAckProbes
    \cup RecordProbes \cup FixProbes

InitCodec ==
    /\ RuptelaStart
    /\ JimiStart
    /\ BufferStart
    /\ probe \in CodecProbes
    /\ answer = NoProbe
    /\ peers = [c \in PeerIds |-> NoPeer]

\* the frame goes through the handler on a connection that has not logged in
ApplyHandler ==
    /\ probe.fn = "handler"
    /\ answer = NoProbe
    /\ \E e \in {processJimiIoTDataImproved(probe.frame,
                      [jimiLoginCompleted |-> FALSE, imei |-> Undefined,
                       hasManager |-> FALSE],
                      clients, <<24, 2, 3, 20, 5, 7>>, {})} :
          answer' = [fn |-> "handler", writes |-> e.writes, sent |-> e.sent,
                     dispatched |-> e.dispatched]
    /\ UNCHANGED <<probe, rupVars, jimiVars, bufVars, peers>>

\* processLoginPacket on the frame
ApplyLogin ==
    /\ probe.fn = "login"
    /\ answer = NoProbe
    /\ answer' = [fn |-> "login", parsed |-> processLoginPacket(probe.frame)]
    /\ UNCHANGED <<probe, rupVars, jimiVars, bufVars, peers>>

\* calculateJimiCRC16 on the bytes
ApplyCrc ==
    /\ probe.fn = "crc"
    /\ answer = NoProbe
    /\ answer' = [fn |-> "crc", value |-> calculateJimiCRC16(probe.data)]
    /\ UNCHANGED <<probe, rupVars, jimiVars, bufVars, peers>>

\* createLoginACK on the serial
ApplyLoginAck ==
    /\ probe.fn = "loginAck"
    /\ answer = NoProbe
    /\ answer' = [fn |-> "loginAck", frame |-> createLoginACK(probe.serial)]
    /\ UNCHANGED <<probe, rupVars, jimiVars, bufVars, peers>>

\* a Records frame with one record that carries the two fields goes
\* through processAndEmitGpsData with an empty cache
ApplyRecord ==
    /\ probe.fn = "record"
    /\ answer = NoProbe
    /\ \E e \in {ProcessAndEmit(
                      RecordsPacket(1,
                          <<[TrackRecord(1, 50) EXCEPT
                                !.latitude = ReadInt32BE(probe.lat, 0),
                                !.longitude = ReadInt32BE(probe.lon, 0)]>>),
                      NoCache, clients, {})} :
          answer' = [fn |-> "record", sent |-> e.sent, acks |-> e.acks]
    /\ UNCHANGED <<probe, rupVars, jimiVars, bufVars, peers>>

NextCodec ==
    \/ ApplyHandler
    \/ ApplyRecord
    \/ ApplyLogin
    \/ ApplyCrc
    \/ ApplyLoginAck

SpecCodec == InitCodec /\ [][NextCodec]_vars

\* a written frame that is an ACK: 10 bytes with length byte 5
IsJimiAck(w) == Len(w) = 10 /\ ReadUInt8(w, 2) = 5

\* C31: every 10-byte frame 78 78 05 <proto> <serial> <crc> 0D 0A with a
\* valid checksum that the handler answers with an ACK gets back its own
\* ten bytes, and encoding an ACK from the protocol and serial the handler
\* decoded gives the frame again
C31_AckRoundTrip ==
    (probe.fn = "handler" /\ Len(probe.frame) = 10 /\ answer # NoProbe) =>
        /\ (answer.writes # <<>> /\ IsJimiAck(answer.writes[1])) =>
               answer.writes = <<probe.frame>>
        /\ answer.dispatched # <<>> =>
               createJimiACK(answer.dispatched[1].protocolNumber,
                             answer.dispatched[1].serialNumber) = probe.frame

\* a heartbeat-shaped frame with the last serial came back as its own ACK
C31_HeartbeatEchoed ==
    /\ probe.fn = "handler"
    /\ probe.frame = AckShaped(35, 65535)
    /\ answer # NoProbe
    /\ answer.writes = <<probe.frame>>

\* the nibbles of the bytes, high before low
RECURSIVE Nibbles(_)
Nibbles(bytes) ==
    IF bytes = <<>> THEN <<>>
    ELSE <<bytes[1] \div 16, bytes[1] % 16>> \o Nibbles(Tail(bytes))

\* the digits of a nibble sequence written as a string
RECURSIVE DigitString(_)
DigitString(ds) ==
    IF ds = <<>> THEN ""
    ELSE DigitChars[ds[1] + 1] \o DigitString(Tail(ds))

\* the IMEI is the nibbles of bytes [4, 12) that are <= 9, in order
ImeiRule ==
    (probe.fn = "login" /\ answer # NoProbe) =>
        answer.parsed.imei =
            DigitString(SelectSeq(Nibbles(Slice(probe.frame, 4, 12)),
                                  LAMBDA d : d <= 9))

\* the login frame of the protocol description decodes to this IMEI
LoginOfSpecDecodesTo(imei) ==
    (probe.fn = "login" /\ probe.frame = LoginOfSpec /\ answer # NoProbe) =>
        /\ answer.parsed.imei = imei
        /\ answer.parsed.typeIdentifier = 13824
        /\ answer.parsed.timeZoneLanguage = 13825
        /\ answer.parsed.serialNumber = 1

\* C32 as stated: the login frame 78 78 11 01 03 51 12 34 56 78 9A BC 36 00
\* 36 01 00 01 8C DD 0D 0A decodes to IMEI "035112345678", typeId 0x3600,
\* tzLang 0x3601 and serial 1, and every decoded IMEI is the nibbles <= 9 of
\* bytes 4..12 in order
C32_LoginDecodesToTwelveDigits ==
    ImeiRule /\ LoginOfSpecDecodesTo("035112345678")

\* C32, amended: the same frame decodes to IMEI "0351123456789" (the nine
\* of 9A is a digit and is kept), typeId 0x3600, tzLang 0x3601, serial 1,
\* and every decoded IMEI is the nibbles <= 9 of bytes 4..12 in order
C32_LoginDecodesByRule ==
    ImeiRule /\ LoginOfSpecDecodesTo("0351123456789")

\* the login frame of the protocol description has been decoded
C32_LoginOfSpecDecoded ==
    /\ probe.fn = "login"
    /\ probe.frame = LoginOfSpec
    /\ answer # NoProbe
    /\ answer.parsed.type = "login"
    /\ Len(answer.parsed.imei) = 13

\* the checksum of data came out as value
CrcOf(data, value) ==
    (probe.fn = "crc" /\ probe.data = data /\ answer # NoProbe) =>
        answer.value = value

\* the reference values that hold for any check string value
CrcFixedPoints ==
    /\ CrcOf(<<>>, 0)
    /\ CrcOf(<<5, 1, 0, 1>>, 55772)
    /\ (probe.fn = "loginAck" /\ probe.serial = 1 /\ answer # NoProbe) =>
           answer.frame = <<120, 120, 5, 1, 0, 1, 217, 220, 13, 10>>
    /\ (probe.fn = "crc" /\ answer # NoProbe) =>
           answer.value = DeviceCrc(probe.data)

\* C33 as stated: the Jimi CRC16 returns 0x0000 for the empty input, 0x6F91
\* for "123456789" and 0xD9DC for 05 01 00 01, and the login ACK for serial
\* 1 is 78 78 05 01 00 01 D9 DC 0D 0A
C33_CrcReferenceValues ==
    CrcFixedPoints /\ CrcOf(CheckString, 28561)

\* C33, amended: the Jimi CRC16 returns 0x0000 for the empty input, 0x906E
\* (the CRC-16/X-25 check value) for "123456789" and 0xD9DC for 05 01 00 01,
\* it agrees with the bit-by-bit CRC-ITU on every input, and the login ACK
\* for serial 1 is 78 78 05 01 00 01 D9 DC 0D 0A
C33_CrcIsX25 ==
    CrcFixedPoints /\ CrcOf(CheckString, 36974)

\* the checksum of "123456789" has been computed
C33_CheckStringDone ==
    /\ probe.fn = "crc"
    /\ probe.data = CheckString
    /\ answer # NoProbe
    /\ answer.value = 36974

\* C34: every position handed to a subscriber has |lat| <= 90 and
\* |lon| <= 180 degrees, whatever the raw fields of the frame: a Ruptela
\* record carries degrees * 10^7 (signed 32 bits), a Jimi fix degrees *
\* 1,800,000 (unsigned 32 bits, the sign is added by the decoder)
C34_EmittedPositionInRange ==
    /\ (probe.fn = "record" /\ answer # NoProbe) =>
           \A i \in DOMAIN answer.sent :
               /\ Abs(answer.sent[i].msg.lat) <= 900000000
               /\ Abs(answer.sent[i].msg.lng) <= 1800000000
    /\ (probe.fn = "handler" /\ answer # NoProbe) =>
           \A i \in DOMAIN answer.sent :
               /\ ~U32Less(ToU32(162000000), answer.sent[i].msg.latitude.raw)
               /\ ~U32Less(ToU32(324000000), answer.sent[i].msg.longitude.raw)

\* a record at exactly 90 degrees north was handed on
C34_RecordAtLimitEmitted ==
    /\ probe.fn = "record"
    /\ probe.lat = <<53, 164, 233, 0>>
    /\ answer # NoProbe
    /\ answer.sent # <<>>
    /\ answer.sent[1].msg.lat = 900000000


(***************************************************************************)
(* SpecSessions: two Jimi connections and the session registry of          *)
(* jimiLogger (deviceSessions, keyed by IMEI).  The timer loops of a       *)
(* scheduler only write request frames and are followed in SpecJimi.       *)
(***************************************************************************)
SessionFrames == {LoginA, LoginB, HeartbeatStatus}

\* the variables of the single connection of SpecJimi, without the registry
singleConn == <<jimiSock, jimiLoginCompleted, socketImei, settleTimers, managers,
                gpsManager, jimiOut, jimiSent, dispatched, jimiWindow,
                lastEvent, pending, requestsMade, lastRequest>>

\* net.createServer callback: a new socket on slot c
PeerConnect(c) ==
    /\ peers[c].sock \in {"none", "closed"}
    /\ peers' = [peers EXCEPT ![c] = [NoPeer EXCEPT !.sock = "open"]]
    /\ UNCHANGED <<deviceSessions, singleConn, rupVars, bufVars, pureVars>>

\* socket 'data' on connection c: the frame goes through the handler; the
\* LOGIN case calls jimiLogger.startSession(imei, socket)
PeerData(c, f) ==
    /\ peers[c].sock = "open"
    /\ \E e \in {processJimiIoTDataImproved(f.bytes,
                      [jimiLoginCompleted |-> peers[c].jimiLoginCompleted,
                       imei |-> peers[c].imei,
                       hasManager |-> peers[c].hasManager],
                      clients, <<24, 2, 3, 20, 5, 7>>, {})} :
          /\ peers' = [peers EXCEPT
                          ![c].jimiLoginCompleted = e.jimiLoginCompleted,
                          ![c].imei = e.imei,
                          ![c].out = e.writes,
                          ![c].timers = @ \o e.timers]
          /\ deviceSessions' = IF e.session = Undefined THEN deviceSessions
                                ELSE deviceSessions \cup {e.session}
    /\ UNCHANGED <<singleConn, rupVars, bufVars, pureVars>>

\* the setTimeout(2000) closure of the LOGIN case on connection c
PeerSettle(c) ==
    /\ peers[c].timers # <<>>
    /\ peers' = [peers EXCEPT
                    ![c].timers = Tail(@),
                    ![c].hasManager = TRUE,
                    ![c].out = IF peers[c].sock = "open"
                               THEN FirstRequestWrites(peers[c].timers[1].serial)
                               ELSE <<>>]
    /\ UNCHANGED <<deviceSessions, singleConn, rupVars, bufVars, pureVars>>

\* socket 'close' on connection c (src/index.js 796-813):
\* if (socket.imei) jimiLogger.endSession(socket.imei)
PeerClose(c) ==
    /\ peers[c].sock = "open"
    /\ peers' = [peers EXCEPT ![c].sock = "closed", ![c].out = <<>>]
    /\ deviceSessions' = IF Truthy(peers[c].imei)
                          THEN deviceSessions \ {peers[c].imei}
                          ELSE deviceSessions
    /\ UNCHANGED <<singleConn, rupVars, bufVars, pureVars>>

NextSessions ==
    \/ \E c \in PeerIds : PeerConnect(c)
    \/ \E c \in PeerIds, f \in SessionFrames : PeerData(c, f)
    \/ \E c \in PeerIds : PeerSettle(c)
    \/ \E c \in PeerIds : PeerClose(c)

SpecSessions == InitRuptela /\ [][NextSessions]_vars

\* the IMEIs of the connections that are open and logged in
OpenImeis ==
    {peers[c].imei : c \in {d \in PeerIds : /\ peers[d].sock = "open"
                                            /\ Truthy(peers[d].imei)}}

\* C38: with two connections that may present the same IMEI, the session
\* registry has an entry for an IMEI exactly when at least one logged-in
\* connection with that IMEI is open; closing the older connection does not
\* remove the entry of the newer one
C38_RegistryMatchesOpenConnections ==
    deviceSessions = OpenImeis

============================================================================
